---- MODULE Spec2Model ----
(***************************************************************************)
(* Model of the ALCM firmware core: the event queue (event_queue.c), the   *)
(* software timers (timer.c) and the board mode state machine              *)
(* (board_mode.c), with the interrupt handlers of hk32f030m_it.c as the    *)
(* asynchronous producers.                                                 *)
(***************************************************************************)
EXTENDS Integers, Sequences, FiniteSets, TLC

(***************************************************************************)
(* Program constants                                                       *)
(***************************************************************************)
EVENT_QUEUE_SIZE == 8
MAX_SUBSCRIPTIONS == 32
MAX_TIMERS == 8

\* event_type_t (event_queue.h), with ENABLE_PITCH_EVENTS and
\* ENABLE_ROLL_EVENTS defined as in config.h
EVENT_NULL == 0
EVENT_SYS_TICK == 1
EVENT_BUTTON_WAKEUP == 2
EVENT_BUTTON_DOWN == 3
EVENT_BUTTON_UP == 4
EVENT_FOOTPAD_CHANGED == 7
EVENT_BOARD_MODE_CHANGED == 8
EVENT_SERIAL_DATA_RX == 9
EVENT_DUTY_CYCLE_CHANGED == 10
EVENT_RPM_CHANGED == 11
EVENT_BATTERY_LEVEL_CHANGED == 12
EVENT_VESC_ALIVE == 13
EVENT_IMU_ROLL_CHANGED == 15
EVENT_COMMAND_BOOT == 19
EVENT_COMMAND_SHUTDOWN == 20
EVENT_COMMAND_NACK == 23
EVENT_COMMAND_MODE_CONFIG == 25
EVENT_EMERGENCY_FAULT == 26
NUMBER_OF_EVENTS == 27

\* lcm_status_t
LCM_SUCCESS == "LCM_SUCCESS"
LCM_ERROR == "LCM_ERROR"
LCM_QUEUE_EMPTY == "LCM_QUEUE_EMPTY"

\* a NULL function pointer
NULL == "NULL"

(***************************************************************************)
(* Bounds of the model                                                     *)
(***************************************************************************)
MaxTicks == 5           \* SysTick interrupts in one behaviour
MaxWakeups == 1         \* EXTI3 interrupts in one behaviour
MaxSerialRx == 1        \* USART1 idle interrupts in one behaviour
MaxCallbackPushes == 1  \* pushes made by subscriber callbacks
MaxSubscribe == 3       \* subscribe_event calls in one behaviour
MaxTimerCalls == 4      \* set_timer / cancel_timer calls in one behaviour
MaxTimerTicks == 4      \* tick events in one behaviour of the timer pool
MaxCallbackOps == 2     \* timer calls one timer callback makes
MaxTimeout == 2         \* the timeouts given to set_timer are 1 .. MaxTimeout
RichCallbacks == 2      \* callbacks set with every timeout and flag, acting in the callback
MaxModuleEvents == 3    \* events and faults the other modules raise in one behaviour
MaxQuietRuns == 1       \* runs of tick events during which no timer expires
MaxPending == 2         \* events in the queue when a producer of the board adds one
MaxBoardTicks == 2      \* SysTick interrupts of the board outside the quiet runs
MaxIdleStages == 4      \* quiet runs of the board left alone in IDLE
MaxRideEvents == 5      \* alive message and telemetry events of one ride
MaxSamples == 5         \* samples applied to one latch
LatchLow == 2           \* the lower threshold a latch is given
LatchHigh == 4          \* the higher threshold a latch is given
MaxFrames == 2          \* frames the line delivers
MaxPolls == 1           \* expiries of the poll timer
MaxModeChanges == 1     \* changes of mode published while frames are decoded
MaxPollTicks == 7       \* expiries of the poll timer in the timeout model
MaxPollModes == 2       \* changes of mode published in the timeout model
MaxSubscribeCalls == 36 \* calls of subscribe_event in the pool model
MaxMixedSubscribes == 2 \* calls before which the two kinds alternate freely
MaxPops == 3            \* calls of event_queue_pop_and_notify taken as a whole
MaxParts == 2           \* pieces in which the line delivers its bytes
RingSize == 3           \* size of the receive ring buffer
MaxRingPushes == 5      \* bytes the UART interrupt hands to the ring buffer
MaxIdRun == 247         \* set_timer / cancel_timer pairs of one long run of a client

VARIABLES
    \* event_queue.c
    event_queue_head, event_queue_tail, event_queue,
    subscribers, next_subscriber_index,
    \* the main thread: its position and the locals of the running calls
    pc, push_event, push_data, push_index, push_ret, push_status,
    notify_index, pop_status,
    \* hk32f030m_it.c
    systick_ms, n_systick,
    \* history: accepted pushes not yet fully delivered (in reservation
    \* order), what the subscribers of the current event saw, the
    \* subscriptions made, and the counters that bound the behaviour
    fifo, cur_seen, subs_log, written,
    n_wake, n_rx, n_cb, n_sub,
    \* timer.c, and the tick handler's position in its loop
    timers, next_timer_id, tick_i, cur_cb,
    \* the clients of the timers: the handle each callback's owner keeps
    handle,
    \* history of the timers: what each callback's timer was armed with and
    \* the ticks begun since, the last call and the last callback's effect
    armed, age, last_call, cb_did, last_cb, n_call, n_tick, n_used, n_plain,
    \* board_mode.c, with the latches of its four hysteresis_t
    board_mode, board_submode, board_mode_idle_timer_id, hysteresis,
    \* the values the other modules retain: vesc_serial.c and footpads.c
    retained,
    \* history of the board: the event delivered last, whether a fault() call
    \* has not been followed by FAULT yet, and the counters of its producers
    delivered, fault_unanswered, mode_request, n_mod, n_quiet,
    \* history: the tick events handled since the current timed IDLE stage began
    stage_ticks,
    \* hysteresis.c: one hysteresis_t, with the samples applied to it and the
    \* states reported for them
    latch,
    \* vesc_serial.c: the static state of the module, the bytes waiting in its
    \* receive buffer, and what its last handler did
    vesc

qvars == <<event_queue_head, event_queue_tail, event_queue,
           subscribers, next_subscriber_index>>
mvars == <<pc, push_event, push_data, push_index, push_ret, push_status,
           notify_index, pop_status>>
hvars == <<fifo, cur_seen, subs_log, written, n_wake, n_rx, n_cb, n_sub>>
tvars == <<timers, next_timer_id, tick_i, cur_cb, handle,
           armed, age, last_call, cb_did, last_cb, n_call, n_tick, n_used, n_plain>>
\* the modules specified on their own
xvars == <<latch, vesc>>
bvars == <<board_mode, board_submode, board_mode_idle_timer_id, hysteresis,
           retained, delivered, fault_unanswered, mode_request, n_mod, n_quiet,
           stage_ticks, xvars>>
vars == <<qvars, mvars, systick_ms, n_systick, hvars, tvars, bvars>>

(***************************************************************************)
(* event_data_t is a union; it is modelled as four words, a scalar member  *)
(* occupying the first one.                                                *)
(***************************************************************************)
ZeroData == <<0, 0, 0, 0>>
Scalar(v) == <<v, 0, 0, 0>>

QueueSlots == 0 .. (EVENT_QUEUE_SIZE - 1)
SubscriberSlots == 0 .. (NUMBER_OF_EVENTS + MAX_SUBSCRIPTIONS - 1)

\* event_queue_init: memset of the queue and of the subscriber list
EventQueueInit ==
    /\ event_queue_head = 0
    /\ event_queue_tail = 0
    /\ next_subscriber_index = NUMBER_OF_EVENTS
    /\ event_queue = [i \in QueueSlots |-> [event |-> EVENT_NULL, data |-> ZeroData]]
    /\ subscribers = [i \in SubscriberSlots |->
                        [event |-> EVENT_NULL, callback |-> NULL, next |-> 0]]

\* is_queue_empty
is_queue_empty == event_queue_head = event_queue_tail

\* event_queue_get_num_events
event_queue_get_num_events ==
    IF event_queue_head <= event_queue_tail
    THEN event_queue_tail - event_queue_head
    ELSE (EVENT_QUEUE_SIZE - event_queue_head) + event_queue_tail

\* event_queue_get_max_items
event_queue_get_max_items == EVENT_QUEUE_SIZE - 1

\* get_free_index: the next tail position, and whether the queue has room
NextTailSkip(tail) == (tail + 2) % EVENT_QUEUE_SIZE
NextTail(tail) == (tail + 1) % EVENT_QUEUE_SIZE
HasFreeIndexNoCheck(head, tail) == TRUE
HasFreeIndex(head, tail) == NextTail(tail) # head

\* the validation of event_queue_push, made after get_free_index
ValidEvent(event) == (event < NUMBER_OF_EVENTS) /\ (event # EVENT_NULL)

\* the consumer's step of event_queue_pop_and_notify
NextHeadSkip(head) == (head + 2) % EVENT_QUEUE_SIZE
NextHead(head) == (head + 1) % EVENT_QUEUE_SIZE

\* the loop condition of notify_subscribers
InSubscriberRange(index) ==
    (index # 0) /\ (index < NUMBER_OF_EVENTS + MAX_SUBSCRIPTIONS)

(***************************************************************************)
(* timer.c                                                                 *)
(***************************************************************************)
INVALID_TIMER_ID == 0
FIRST_TIMER_ID == INVALID_TIMER_ID + 1
\* timer_id_t is uint8_t
TIMER_ID_RANGE == 256
EMERGENCY_FAULT_OVERFLOW == 4

TimerSlots == 0 .. (MAX_TIMERS - 1)
\* stands for the NULL timer_t pointer of the find functions
NoSlot == MAX_TIMERS

\* the first slot of a set of slots, as the for loops that return at the
\* first match; NoSlot when there is none
FirstSlot(slots) ==
    IF slots = {}
    THEN NoSlot
    ELSE CHOOSE i \in slots : \A j \in slots : i <= j

\* find_timer_id_by_callback
find_timer_id_by_callback(ts, callback) ==
    LET slot == FirstSlot({i \in TimerSlots : ts[i].callback = callback})
    IN IF slot = NoSlot THEN INVALID_TIMER_ID ELSE ts[slot].id

\* find_timer_by_id
find_timer_by_id(ts, timer_id) == FirstSlot({i \in TimerSlots : ts[i].id = timer_id})

\* find_available_timer
find_available_timer(ts) == FirstSlot({i \in TimerSlots : ts[i].callback = NULL})

\* find_next_timer_id: next_timer_id is incremented (uint8_t) while a slot
\* holds it
RECURSIVE find_next_timer_id(_, _)
find_next_timer_id(ts, next) ==
    IF find_timer_by_id(ts, next) # NoSlot
    THEN find_next_timer_id(ts, (next + 1) % TIMER_ID_RANGE)
    ELSE next

\* set_timer: the pool, next_timer_id, the returned id and whether
\* fault(EMERGENCY_FAULT_OVERFLOW) was called
set_timer_always_new(ts, next, timeout, callback, repeat) ==
    LET slot == find_available_timer(ts)
        nid == find_next_timer_id(ts, next)
    IN IF slot # NoSlot
       THEN [timers |-> [ts EXCEPT ![slot] =
                           [timeout |-> timeout, counter |-> timeout,
                            callback |-> callback, repeat |-> repeat, id |-> nid]],
             next_timer_id |-> nid, ret |-> nid, fault |-> FALSE]
       ELSE [timers |-> ts, next_timer_id |-> next,
             ret |-> INVALID_TIMER_ID, fault |-> TRUE]
set_timer_evicting(ts, next, timeout, callback, repeat) ==
    LET id == find_timer_id_by_callback(ts, callback)
        free == find_available_timer(ts)
        slot == IF id # INVALID_TIMER_ID THEN find_timer_by_id(ts, id)
                ELSE IF free = NoSlot THEN 0 ELSE free
        nid == IF id # INVALID_TIMER_ID THEN id ELSE find_next_timer_id(ts, next)
    IN [timers |-> [ts EXCEPT ![slot] =
                      [timeout |-> timeout, counter |-> timeout,
                       callback |-> callback, repeat |-> repeat, id |-> nid]],
        next_timer_id |-> IF id # INVALID_TIMER_ID THEN next ELSE nid,
        ret |-> nid, fault |-> FALSE]
set_timer(ts, next, timeout, callback, repeat) ==
    LET id == find_timer_id_by_callback(ts, callback)
    IN IF id = INVALID_TIMER_ID
       THEN LET slot == find_available_timer(ts)
                nid == find_next_timer_id(ts, next)
            IN IF slot # NoSlot
               THEN [timers |-> [ts EXCEPT ![slot] =
                                   [timeout |-> timeout, counter |-> timeout,
                                    callback |-> callback, repeat |-> repeat, id |-> nid]],
                     next_timer_id |-> nid, ret |-> nid, fault |-> FALSE]
               ELSE [timers |-> ts, next_timer_id |-> next,
                     ret |-> INVALID_TIMER_ID, fault |-> TRUE]
       ELSE LET slot == find_timer_by_id(ts, id)
            IN [timers |-> [ts EXCEPT ![slot].timeout = timeout,
                                      ![slot].counter = timeout,
                                      ![slot].repeat = repeat],
                next_timer_id |-> next, ret |-> id, fault |-> FALSE]

\* cancel_timer: the pool and the returned status
cancel_timer_unchecked(ts, timer_id) ==
    LET slot == find_timer_by_id(ts, timer_id)
    IN [timers |-> [ts EXCEPT ![IF slot = NoSlot THEN 0 ELSE slot].callback = NULL],
        status |-> LCM_SUCCESS]
cancel_timer(ts, timer_id) ==
    IF timer_id # INVALID_TIMER_ID /\ find_timer_by_id(ts, timer_id) # NoSlot
    THEN [timers |-> [ts EXCEPT ![find_timer_by_id(ts, timer_id)].callback = NULL],
          status |-> LCM_SUCCESS]
    ELSE [timers |-> ts, status |-> LCM_ERROR]

\* is_timer_active
is_timer_active(ts, timer_id) ==
    /\ timer_id # INVALID_TIMER_ID
    /\ find_timer_by_id(ts, timer_id) # NoSlot
    /\ ts[find_timer_by_id(ts, timer_id)].callback # NULL

\* timer_active_count
timer_active_count(ts) == Cardinality({i \in TimerSlots : ts[i].callback # NULL})

\* is_timer_repeating
is_timer_repeating(ts, timer_id) ==
    /\ timer_id # INVALID_TIMER_ID
    /\ find_timer_by_id(ts, timer_id) # NoSlot
    /\ ts[find_timer_by_id(ts, timer_id)].repeat

\* get_timer_remaining
get_timer_remaining(ts, timer_id) ==
    IF timer_id # INVALID_TIMER_ID /\ find_timer_by_id(ts, timer_id) # NoSlot
    THEN ts[find_timer_by_id(ts, timer_id)].counter
    ELSE 0

\* timers[i].counter--; the counter is unsigned, so 0 wraps, which is kept
\* here as the negative representative of the same residue
DecrementTwice(counter) == counter - 2
Decrement(counter) == counter - 1

\* the tick handler's loop from slot i on, up to the first slot whose
\* counter reaches 0 (its callback is called next) or to the end of the pool
RECURSIVE TickAdvance(_, _)
TickAdvance(ts, i) ==
    IF i >= MAX_TIMERS
    THEN [timers |-> ts, i |-> MAX_TIMERS, fire |-> FALSE]
    ELSE IF ts[i].callback = NULL
         THEN TickAdvance(ts, i + 1)
         ELSE LET ts1 == [ts EXCEPT ![i].counter = Decrement(@)]
              IN IF ts1[i].counter = 0
                 THEN [timers |-> ts1, i |-> i, fire |-> TRUE]
                 ELSE TickAdvance(ts1, i + 1)

\* the tick handler after the callback of slot i returned: the counter is
\* looked at again, and a timer that was not set again is reloaded or freed
PostExpiryAlways(ts, i) ==
    IF ts[i].repeat
    THEN [ts EXCEPT ![i].counter = ts[i].timeout]
    ELSE [ts EXCEPT ![i].callback = NULL]
PostExpiry(ts, i) ==
    IF ts[i].counter = 0
    THEN IF ts[i].repeat
         THEN [ts EXCEPT ![i].counter = ts[i].timeout]
         ELSE [ts EXCEPT ![i].callback = NULL]
    ELSE ts

(***************************************************************************)
(* board_mode.h, footpads.h, hysteresis.h, config.h                        *)
(***************************************************************************)
BOARD_MODE_UNKNOWN == 0
BOARD_MODE_OFF == 1
BOARD_MODE_BOOTING == 2
BOARD_MODE_IDLE == 3
BOARD_MODE_RIDING == 4
BOARD_MODE_CHARGING == 5
BOARD_MODE_FAULT == 6

BOARD_SUBMODE_UNDEFINED == 0
BOARD_SUBMODE_IDLE_ACTIVE == 1
BOARD_SUBMODE_IDLE_DEFAULT == 2
BOARD_SUBMODE_IDLE_DOZING == 3
BOARD_SUBMODE_IDLE_SHUTTING_DOWN == 4
BOARD_SUBMODE_IDLE_CONFIG == 5
BOARD_SUBMODE_RIDING_STOPPED == 6
BOARD_SUBMODE_RIDING_SLOW == 7
BOARD_SUBMODE_RIDING_NORMAL == 8
BOARD_SUBMODE_RIDING_WARNING == 9
BOARD_SUBMODE_RIDING_DANGER == 10

NONE_FOOTPAD == 0
LEFT_FOOTPAD == 1
RIGHT_FOOTPAD == 2

STATE_RESET == "STATE_RESET"
STATE_SET == "STATE_SET"
STATE_ERROR == "STATE_ERROR"

IDLE_ACTIVE_TIMEOUT == 4000
IDLE_DEFAULT_TIMEOUT == 120000
IDLE_DOZING_TIMEOUT == 480000
IDLE_SHUTTING_DOWN_TIMEOUT == 1000
STOPPED_RPM_THRESHOLD == 20
SLOW_RPM_THRESHOLD == 2000
DUTY_CYCLE_DANGER_THRESHOLD == 90
DUTY_CYCLE_WARNING_THRESHOLD == 80

EMERGENCY_FAULT_INVALID_STATE == 7
EMERGENCY_FAULT_VESC == 10
EMERGENCY_FAULT_OUT_OF_BOUNDS == 2
EMERGENCY_FAULT_INVALID_LENGTH == 9
EMERGENCY_FAULT_VESC_COMM_TIMEOUT == 11

\* the static initial values of board_mode.c, vesc_serial.c and footpads.c
BoardStatic ==
    /\ board_mode = BOARD_MODE_UNKNOWN
    /\ board_submode = BOARD_SUBMODE_UNDEFINED
    /\ board_mode_idle_timer_id = INVALID_TIMER_ID
    /\ hysteresis = [stopped_rpm |-> STATE_RESET, slow_rpm |-> STATE_RESET,
                     danger |-> STATE_RESET, warning |-> STATE_RESET]
    /\ retained = [rpm |-> 0, duty_cycle |-> 0, imu_roll |-> 0, footpads_state |-> NONE_FOOTPAD]

NotDelivered == [event |-> EVENT_NULL, data |-> ZeroData, mode |-> BOARD_MODE_UNKNOWN,
                 submode |-> BOARD_SUBMODE_UNDEFINED, idle_timer |-> FALSE]

\* no set_board_mode call yet
NoRequest == [calls |-> 0, mode |-> BOARD_MODE_UNKNOWN, submode |-> BOARD_SUBMODE_UNDEFINED]

\* the latch as its declaration leaves it, before hysteresis_init; status is
\* what the last hysteresis_init returned, trace the samples applied since
\* and the states reported for them
LatchStatic ==
    [state |-> STATE_RESET, set_threshold |-> 0, reset_threshold |-> 0,
     status |-> LCM_SUCCESS, trace |-> << >>]

\* vesc_serial_rx_buffer as its declaration leaves it, with the locals of the
\* ring_buffer_pop call of the main thread (data is the byte it hands back)
\* and the history of the buffer: the bytes accepted and handed back, what
\* the last push and pop returned, and whether a push ran inside a pop
RingStatic ==
    [buffer |-> [i \in 0..(RingSize - 1) |-> 0], read_idx |-> 0, write_idx |-> 0, size |-> 0,
     data |-> 0, pushed |-> << >>, popped |-> << >>, push_ret |-> TRUE, pop_ret |-> TRUE,
     raced |-> FALSE]

\* the static state of the modules specified on their own
\* vesc_serial.c after vesc_serial_init: nothing retained, the VESC not alive,
\* no request outstanding, nobody waiting, the receive buffer empty; faults
\* and called are what the last handler of the module did: the kinds it
\* passed to fault() and whether it called the waiting callback
\* (history: unanswered counts the requests sent since a frame with a right
\* CRC was handled, parts are the pieces the line delivered)
VescStatic ==
    [alive |-> FALSE, outstanding |-> 0, callback |-> FALSE,
     values |-> [duty_cycle |-> 0, rpm |-> 0, battery_level |-> 0, fault |-> 0],
     rx |-> << >>, tx_timerid |-> INVALID_TIMER_ID, faults |-> << >>, called |-> FALSE,
     unanswered |-> 0, parts |-> << >>, ring |-> RingStatic,
     ref |-> [stopped_rpm |-> STATE_RESET, slow_rpm |-> STATE_RESET,
             danger |-> STATE_RESET, warning |-> STATE_RESET]]

ModulesStatic ==
    /\ latch = LatchStatic
    /\ vesc = VescStatic

InitBoardHistory ==
    /\ delivered = NotDelivered
    /\ fault_unanswered = FALSE
    /\ mode_request = NoRequest
    /\ stage_ticks = 0
    /\ n_mod = 0
    /\ n_quiet = 0

\* variables of the other modules, untouched by the queue's own steps
ovars == <<tvars, bvars>>

(***************************************************************************)
(* event_queue_push, as the main thread executes it: the index is reserved *)
(* with interrupts masked (get_free_index), the event and its data are     *)
(* copied afterwards with interrupts enabled.                              *)
(***************************************************************************)
\* a caller on the main thread enters event_queue_push(event, data)
CallPush(event, data, ret) ==
    /\ pc' = "push_reserve"
    /\ push_event' = event
    /\ push_data' = data
    /\ push_ret' = ret
    /\ UNCHANGED <<push_index, push_status, notify_index, pop_status>>

\* get_free_index and the test of event_queue_push; on failure the call
\* returns LCM_ERROR (its locals die with it)
PushReserve ==
    /\ pc = "push_reserve"
    /\ IF HasFreeIndex(event_queue_head, event_queue_tail)
       THEN /\ event_queue_tail' = NextTail(event_queue_tail)
            /\ IF ValidEvent(push_event)
               THEN /\ pc' = "push_write_event"
                    /\ push_index' = event_queue_tail
                    /\ fifo' = Append(fifo, [event |-> push_event, data |-> push_data])
                    /\ written' = [written EXCEPT ![event_queue_tail] = FALSE]
                    /\ UNCHANGED <<push_status, push_event, push_data, push_ret>>
               ELSE /\ pc' = push_ret
                    /\ push_status' = LCM_ERROR
                    /\ push_event' = EVENT_NULL
                    /\ push_data' = ZeroData
                    /\ push_index' = 0
                    /\ push_ret' = "main"
                    /\ UNCHANGED <<fifo, written>>
       ELSE /\ pc' = push_ret
            /\ push_status' = LCM_ERROR
            /\ push_event' = EVENT_NULL
            /\ push_data' = ZeroData
            /\ push_index' = 0
            /\ push_ret' = "main"
            /\ UNCHANGED <<event_queue_tail, fifo, written>>
    /\ UNCHANGED <<event_queue_head, event_queue, subscribers, next_subscriber_index,
                   notify_index, pop_status,
                   systick_ms, n_systick, cur_seen, subs_log, n_wake, n_rx, n_cb, n_sub, ovars>>

\* event_queue[index].event = event
PushWriteEvent ==
    /\ pc = "push_write_event"
    /\ event_queue' = [event_queue EXCEPT ![push_index].event = push_event]
    /\ pc' = "push_write_data"
    /\ UNCHANGED <<event_queue_head, event_queue_tail, subscribers, next_subscriber_index,
                   push_event, push_data, push_index, push_ret, push_status,
                   notify_index, pop_status, systick_ms, n_systick, hvars, ovars>>

\* memcpy / memset of the data, send_event, return LCM_SUCCESS
PushWriteData ==
    /\ pc = "push_write_data"
    /\ event_queue' = [event_queue EXCEPT ![push_index].data = push_data]
    /\ written' = [written EXCEPT ![push_index] = TRUE]
    /\ push_status' = LCM_SUCCESS
    /\ pc' = push_ret
    /\ push_event' = EVENT_NULL
    /\ push_data' = ZeroData
    /\ push_index' = 0
    /\ push_ret' = "main"
    /\ UNCHANGED <<event_queue_head, event_queue_tail, subscribers, next_subscriber_index,
                   notify_index, pop_status, systick_ms, n_systick,
                   fifo, cur_seen, subs_log, n_wake, n_rx, n_cb, n_sub, ovars>>

(***************************************************************************)
(* event_queue_push executed by an interrupt handler: the handler runs to  *)
(* completion before the main thread resumes, so the main thread sees the  *)
(* whole call as one step.  It can preempt the main thread anywhere, since *)
(* interrupts are masked only inside get_free_index.                       *)
(***************************************************************************)
IsrPush(event, data) ==
    /\ IF HasFreeIndex(event_queue_head, event_queue_tail)
       THEN /\ event_queue_tail' = NextTail(event_queue_tail)
            /\ IF ValidEvent(event)
               THEN /\ event_queue' = [event_queue EXCEPT ![event_queue_tail] =
                                          [event |-> event, data |-> data]]
                    /\ fifo' = Append(fifo, [event |-> event, data |-> data])
                    /\ written' = [written EXCEPT ![event_queue_tail] = TRUE]
               ELSE UNCHANGED <<event_queue, fifo, written>>
       ELSE UNCHANGED <<event_queue_tail, event_queue, fifo, written>>
    /\ UNCHANGED <<event_queue_head, subscribers, next_subscriber_index>>

\* SysTick_Handler
SysTick_Handler ==
    /\ n_systick < MaxTicks
    /\ n_systick' = n_systick + 1
    /\ systick_ms' = systick_ms + 1
    /\ IsrPush(EVENT_SYS_TICK, Scalar(systick_ms + 1))
    /\ UNCHANGED <<mvars, cur_seen, subs_log, n_wake, n_rx, n_cb, n_sub, ovars>>

\* EXTI3_IRQHandler
EXTI3_IRQHandler ==
    /\ n_wake < MaxWakeups
    /\ n_wake' = n_wake + 1
    /\ IsrPush(EVENT_BUTTON_WAKEUP, Scalar(systick_ms))
    /\ UNCHANGED <<mvars, systick_ms, n_systick, cur_seen, subs_log, n_rx, n_cb, n_sub, ovars>>

\* USART1_IRQHandler, IDLE line detected
USART1_IRQHandler ==
    /\ n_rx < MaxSerialRx
    /\ n_rx' = n_rx + 1
    /\ IsrPush(EVENT_SERIAL_DATA_RX, ZeroData)
    /\ UNCHANGED <<mvars, systick_ms, n_systick, cur_seen, subs_log, n_wake, n_cb, n_sub, ovars>>

(***************************************************************************)
(* subscribe_event                                                         *)
(***************************************************************************)
\* the end of the list of an event: follow next until it is 0
RECURSIVE LastSubscriber(_, _)
LastSubscriber(subs, index) ==
    IF subs[index].next # 0 THEN LastSubscriber(subs, subs[index].next) ELSE index

\* a pool that hands out one entry more than it has
PoolHasRoomForOneMore(next_index) == next_index <= NUMBER_OF_EVENTS + MAX_SUBSCRIPTIONS

\* whether the overflow pool still has an entry
PoolHasRoom(next_index) == next_index < NUMBER_OF_EVENTS + MAX_SUBSCRIPTIONS

\* the subscriber list after subscribe_event(event, callback)
SubscribeList(subs, next_index, event, callback) ==
    IF subs[event].callback = NULL
    THEN [subs EXCEPT ![event] = [event |-> event, callback |-> callback, next |-> 0]]
    ELSE IF PoolHasRoom(next_index)
         THEN [subs EXCEPT
                 ![next_index] = [event |-> event, callback |-> callback, next |-> 0],
                 ![LastSubscriber(subs, event)].next = next_index]
         ELSE subs

\* the events this model subscribes to and pushes
QueueEvents == {EVENT_SYS_TICK, EVENT_BUTTON_DOWN}

\* the callbacks of the abstract subscribers: the n-th subscribe_event call
\* registers the n-th of them
SubscriberCallbacks == <<"sub1", "sub2", "sub3", "sub4", "sub5", "sub6">>

\* subscribe_event(event, callback), called by the init functions that
\* system_init runs before the main loop
Subscribe(event) ==
    /\ pc = "init"
    /\ n_sub < MaxSubscribe
    /\ n_sub' = n_sub + 1
    /\ ValidEvent(event)
    /\ subs_log' = Append(subs_log, [event |-> event, callback |-> SubscriberCallbacks[n_sub + 1]])
    /\ subscribers' = SubscribeList(subscribers, next_subscriber_index, event,
                                    SubscriberCallbacks[n_sub + 1])
    /\ next_subscriber_index' =
          IF subscribers[event].callback # NULL /\ PoolHasRoom(next_subscriber_index)
          THEN next_subscriber_index + 1 ELSE next_subscriber_index
    /\ UNCHANGED <<event_queue_head, event_queue_tail, event_queue, mvars, systick_ms, n_systick,
                   fifo, cur_seen, written, n_wake, n_rx, n_cb, ovars>>

(***************************************************************************)
(* event_queue_pop_and_notify and notify_subscribers                       *)
(***************************************************************************)
\* main(): the call of event_queue_pop_and_notify; status = LCM_SUCCESS
PopAndNotifyCall ==
    /\ pc = "main"
    /\ pc' = "drain_check"
    /\ pop_status' = LCM_SUCCESS
    /\ UNCHANGED <<qvars, push_event, push_data, push_index, push_ret, push_status,
                   notify_index, systick_ms, n_systick, hvars, ovars>>

\* while (!is_queue_empty()): enter notify_subscribers or return
DrainCheck ==
    /\ pc = "drain_check"
    /\ IF is_queue_empty
       THEN /\ pc' = "main"
            /\ UNCHANGED notify_index
       ELSE /\ pc' = "notify"
            /\ notify_index' = event_queue[event_queue_head].event
    /\ UNCHANGED <<qvars, push_event, push_data, push_index, push_ret, push_status,
                   pop_status, systick_ms, n_systick, hvars, ovars>>

\* notify_subscribers: the callback at index is called with the event and
\* the data read from the slot at the head
NotifyCall ==
    /\ pc = "notify"
    /\ InSubscriberRange(notify_index)
    /\ subscribers[notify_index].callback # NULL
    /\ \E n \in DOMAIN SubscriberCallbacks :
          subscribers[notify_index].callback = SubscriberCallbacks[n]
    /\ cur_seen' = Append(cur_seen,
                     [callback |-> subscribers[notify_index].callback,
                      event |-> event_queue[event_queue_head].event,
                      data |-> event_queue[event_queue_head].data])
    /\ pc' = "callback"
    /\ UNCHANGED <<qvars, push_event, push_data, push_index, push_ret, push_status,
                   notify_index, pop_status, systick_ms, n_systick,
                   fifo, subs_log, written, n_wake, n_rx, n_cb, n_sub, ovars>>

\* notify_subscribers: an entry without callback is skipped
NotifySkip ==
    /\ pc = "notify"
    /\ InSubscriberRange(notify_index)
    /\ subscribers[notify_index].callback = NULL
    /\ notify_index' = subscribers[notify_index].next
    /\ UNCHANGED <<qvars, pc, push_event, push_data, push_index, push_ret, push_status,
                   pop_status, systick_ms, n_systick, hvars, ovars>>

\* a subscriber callback pushes an event
CallbackPush(event, data) ==
    /\ pc = "callback"
    /\ n_cb < MaxCallbackPushes
    /\ n_cb' = n_cb + 1
    /\ CallPush(event, data, "callback")
    /\ UNCHANGED <<qvars, systick_ms, n_systick, fifo, cur_seen, subs_log, written,
                   n_wake, n_rx, n_sub, ovars>>

\* the callback returns: index = subscribers[index].next
CallbackReturn ==
    /\ pc = "callback"
    /\ notify_index' = subscribers[notify_index].next
    /\ pc' = "notify"
    /\ UNCHANGED <<qvars, push_event, push_data, push_index, push_ret, push_status,
                   pop_status, systick_ms, n_systick, hvars, ovars>>

\* notify_subscribers returns LCM_SUCCESS and the head advances
NotifyDone ==
    /\ pc = "notify"
    /\ ~InSubscriberRange(notify_index)
    /\ pop_status' = LCM_SUCCESS
    /\ event_queue_head' = NextHead(event_queue_head)
    /\ fifo' = IF fifo = << >> THEN fifo ELSE Tail(fifo)
    /\ cur_seen' = << >>
    /\ pc' = "drain_check"
    /\ notify_index' = 0
    /\ UNCHANGED <<event_queue_tail, event_queue, subscribers, next_subscriber_index,
                   push_event, push_data, push_index, push_ret, push_status,
                   systick_ms, n_systick, subs_log, written,
                   n_wake, n_rx, n_cb, n_sub, ovars>>

\* main(): system_init has returned; event_queue_push(EVENT_COMMAND_BOOT, NULL)
\* and then the loop
MainPush(event, data) ==
    /\ pc = "init"
    /\ CallPush(event, data, "main")
    /\ UNCHANGED <<qvars, systick_ms, n_systick, hvars, ovars>>

(***************************************************************************)
(* The event queue with its producers and abstract subscribers             *)
(***************************************************************************)
InitMain ==
    /\ pc = "init"
    /\ push_event = EVENT_NULL
    /\ push_data = ZeroData
    /\ push_index = 0
    /\ push_ret = "main"
    /\ push_status = LCM_SUCCESS
    /\ notify_index = 0
    /\ pop_status = LCM_SUCCESS

InitHistory ==
    /\ fifo = << >>
    /\ cur_seen = << >>
    /\ subs_log = << >>
    /\ written = [i \in QueueSlots |-> FALSE]
    /\ n_wake = 0
    /\ n_rx = 0
    /\ n_cb = 0
    /\ n_sub = 0

\* timer_init: memset of the pool
TimerInit ==
    /\ next_timer_id = FIRST_TIMER_ID
    /\ timers = [i \in TimerSlots |->
                   [timeout |-> 0, counter |-> 0, callback |-> NULL,
                    repeat |-> FALSE, id |-> 0]]
    /\ tick_i = 0
    /\ cur_cb = NULL

\* the callbacks given to set_timer
TimerCallbacks == <<"cb1", "cb2", "cb3", "cb4", "cb5", "cb6", "cb7", "cb8", "cb9">>
TimerCallbackSet == {TimerCallbacks[n] : n \in DOMAIN TimerCallbacks}

NotArmed == [timeout |-> 0, repeat |-> FALSE]
NoCall == [n |-> 0, op |-> "none", callback |-> NULL, timeout |-> 0, repeat |-> FALSE,
           id |-> 0, ret |-> 0, status |-> LCM_SUCCESS, fault |-> FALSE, live |-> FALSE]
NoCallbackEffect == [callback |-> NULL, did |-> "none", timeout |-> 0, repeat |-> FALSE,
                     ops |-> 0]

InitTimerHistory ==
    /\ handle = [c \in TimerCallbackSet |-> INVALID_TIMER_ID]
    /\ armed = [c \in TimerCallbackSet |-> NotArmed]
    /\ age = [c \in TimerCallbackSet |-> 0]
    /\ last_call = NoCall
    /\ cb_did = NoCallbackEffect
    /\ last_cb = NoCallbackEffect
    /\ n_call = 0
    /\ n_tick = 0
    /\ n_used = 0
    /\ n_plain = 0

InitQueue ==
    /\ EventQueueInit
    /\ InitMain
    /\ InitHistory
    /\ systick_ms = 0
    /\ n_systick = 0
    /\ TimerInit
    /\ InitTimerHistory
    /\ BoardStatic
    /\ InitBoardHistory
    /\ ModulesStatic

NextQueue ==
    \/ SysTick_Handler
    \/ EXTI3_IRQHandler
    \/ USART1_IRQHandler
    \/ \E e \in QueueEvents : Subscribe(e)
    \/ MainPush(EVENT_COMMAND_BOOT, ZeroData)
    \/ PushReserve
    \/ PushWriteEvent
    \/ PushWriteData
    \/ PopAndNotifyCall
    \/ DrainCheck
    \/ NotifyCall
    \/ NotifySkip
    \/ CallbackPush(EVENT_BUTTON_DOWN, Scalar(1))
    \/ CallbackReturn
    \/ NotifyDone

SpecQueue == InitQueue /\ [][NextQueue]_vars

(***************************************************************************)
(* Properties of the event queue                                           *)
(***************************************************************************)
\* the callbacks subscribed to an event, in the order of the subscribe_event
\* calls
RECURSIVE SubscribedTo(_, _)
SubscribedTo(log, event) ==
    IF log = << >> THEN << >>
    ELSE IF Head(log).event = event
         THEN <<Head(log).callback>> \o SubscribedTo(Tail(log), event)
         ELSE SubscribedTo(Tail(log), event)

SeenCallbacks == [i \in DOMAIN cur_seen |-> cur_seen[i].callback]

IsPrefix(a, b) == Len(a) <= Len(b) /\ \A i \in DOMAIN a : a[i] = b[i]

\* the main thread is inside notify_subscribers
Delivering ==
    \/ pc \in {"notify", "callback"}
    \/ pc \in {"push_reserve", "push_write_event", "push_write_data"} /\ push_ret = "callback"

\* the k-th oldest slot of the queue
SlotOf(k) == (event_queue_head + k - 1) % EVENT_QUEUE_SIZE

\* an interrupt handler ran in this step
IsrStep == systick_ms' # systick_ms \/ n_wake' # n_wake \/ n_rx' # n_rx

\* C1: the events are delivered in push order, each to every subscriber of
\* its kind once and in subscription order before the next event is looked
\* at, and event_queue_pop_and_notify returns only on an empty queue
C1_SeenInOrder ==
    \A i \in DOMAIN cur_seen :
        /\ fifo # << >>
        /\ cur_seen[i].event = Head(fifo).event
        /\ cur_seen[i].data = Head(fifo).data
        /\ IsPrefix(SeenCallbacks, SubscribedTo(subs_log, Head(fifo).event))

C1_HeadStep ==
    (event_queue_head' # event_queue_head) =>
        /\ fifo # << >>
        /\ SeenCallbacks = SubscribedTo(subs_log, Head(fifo).event)
        /\ fifo' = Tail(fifo)

C1_ReturnStep ==
    (pc = "drain_check" /\ pc' = "main") => event_queue_get_num_events = 0

C2_PushOnFull ==
    (event_queue_get_num_events = event_queue_get_max_items) =>
        /\ (pc = "push_reserve" /\ pc' # pc) =>
              /\ push_status' = LCM_ERROR
              /\ pc' = push_ret
              /\ UNCHANGED <<event_queue_head, event_queue_tail, event_queue, fifo>>
        /\ IsrStep =>
              UNCHANGED <<event_queue_head, event_queue_tail, event_queue, fifo>>

C2_Bounded ==
    /\ [](event_queue_get_num_events <= event_queue_get_max_items)
    /\ [][C2_PushOnFull]_vars

\* a push by the main thread has just failed on a full queue
C2_Witness ==
    /\ push_status = LCM_ERROR
    /\ event_queue_get_num_events = event_queue_get_max_items
    /\ Len(fifo) = event_queue_get_max_items

\* C3: with interrupt-sourced pushes at any point of the main thread, the
\* queue holds exactly the accepted pushes in reservation order, a slot is
\* complete before it is delivered, and what the subscribers see is the
\* oldest accepted push
C3_InterruptSafe ==
    /\ Len(fifo) = event_queue_get_num_events
    /\ \A k \in 1 .. Len(fifo) :
          IF written[SlotOf(k)]
          THEN event_queue[SlotOf(k)] = fifo[k]
          ELSE pc \in {"push_write_event", "push_write_data"} /\ SlotOf(k) = push_index
    /\ Delivering =>
          /\ fifo # << >>
          /\ written[event_queue_head]
          /\ event_queue[event_queue_head] = Head(fifo)
    /\ \A i \in DOMAIN cur_seen :
          cur_seen[i].event = Head(fifo).event /\ cur_seen[i].data = Head(fifo).data

\* an interrupt reserved a slot between the reservation and the copy of a
\* push made by a subscriber during the drain
C3_Witness ==
    /\ pc \in {"push_write_event", "push_write_data"}
    /\ push_ret = "callback"
    /\ event_queue_tail # NextTail(push_index)


(***************************************************************************)
(* The timer pool with its clients.  A client calls set_timer and          *)
(* cancel_timer between two tick events; inside its timer callback it sets *)
(* its own timer and cancels its own or another one, as the callbacks of   *)
(* the firmware do.  It keeps the handle set_timer returned.  The tick     *)
(* event reaches timer_system_tick_event_handler directly.                 *)
(***************************************************************************)
\* fault(): the push of EVENT_EMERGENCY_FAULT, its result dropped
fault(kind) == IsrPush(EVENT_EMERGENCY_FAULT, Scalar(kind))

ArmedSet(ar) == {c \in TimerCallbackSet : ar[c] # NotArmed}

\* The first RichCallbacks callbacks are set with every timeout and flag,
\* at any time, the first before the second, and their bodies set and
\* cancel their own timer.  The other callbacks are set once each when the
\* client starts, in their order, repeating with the longest timeout, and
\* their bodies call nothing.
IsRich(callback) == \E n \in 1 .. RichCallbacks : TimerCallbacks[n] = callback
CallbackNumber(callback) == CHOOSE n \in DOMAIN TimerCallbacks : TimerCallbacks[n] = callback
AllowedSet(timeout, callback, repeat) ==
    LET n == CallbackNumber(callback)
    IN IF IsRich(callback)
       THEN pc # "init" /\ n <= n_used + 1 /\ n_call < MaxTimerCalls
       ELSE /\ pc = "init"
            /\ n = RichCallbacks + n_plain + 1
            /\ timeout = MaxTimeout
            /\ repeat

\* what a set_timer call does to the pool, the client's handle and the
\* history, whoever calls
DoSetTimer(timeout, callback, repeat) ==
    LET r == set_timer(timers, next_timer_id, timeout, callback, repeat)
        arms == armed[callback] # NotArmed \/ Cardinality(ArmedSet(armed)) < MAX_TIMERS
    IN /\ timers' = r.timers
       /\ next_timer_id' = r.next_timer_id
       /\ handle' = [handle EXCEPT ![callback] = r.ret]
       /\ IF r.fault
          THEN fault(EMERGENCY_FAULT_OVERFLOW)
          ELSE UNCHANGED <<qvars, fifo, written>>
       /\ armed' = IF arms
                   THEN [armed EXCEPT ![callback] = [timeout |-> timeout, repeat |-> repeat]]
                   ELSE armed
       /\ age' = IF arms THEN [age EXCEPT ![callback] = 0] ELSE age
       /\ n_call' = IF IsRich(callback) THEN n_call + 1 ELSE n_call
       /\ n_used' = IF IsRich(callback) /\ CallbackNumber(callback) > n_used
                   THEN CallbackNumber(callback) ELSE n_used
       /\ n_plain' = IF IsRich(callback) THEN n_plain ELSE n_plain + 1
       /\ last_call' = [n |-> 1 - last_call.n, op |-> "set", callback |-> callback,
                        timeout |-> timeout, repeat |-> repeat, id |-> 0,
                        ret |-> r.ret, status |-> LCM_SUCCESS, fault |-> r.fault,
                        live |-> armed[callback] # NotArmed]

\* what a cancel_timer call does
DoCancelTimer(timer_id) ==
    LET r == cancel_timer(timers, timer_id)
    IN /\ timers' = r.timers
       /\ armed' = [c \in TimerCallbackSet |->
                      IF handle[c] = timer_id THEN NotArmed ELSE armed[c]]
       /\ age' = [c \in TimerCallbackSet |-> IF handle[c] = timer_id THEN 0 ELSE age[c]]
       /\ n_call' = n_call + 1
       /\ last_call' = [n |-> 1 - last_call.n, op |-> "cancel", callback |-> NULL,
                        timeout |-> 0, repeat |-> FALSE, id |-> timer_id,
                        ret |-> 0, status |-> r.status, fault |-> FALSE,
                        live |-> \E c \in TimerCallbackSet :
                                    armed[c] # NotArmed /\ handle[c] = timer_id]
       /\ UNCHANGED <<next_timer_id, handle, n_used, n_plain, qvars, fifo, written>>

\* set_timer called between two tick events
SetTimerMain(timeout, callback, repeat) ==
    /\ pc \in {"init", "main"}
    /\ AllowedSet(timeout, callback, repeat)
    /\ DoSetTimer(timeout, callback, repeat)
    /\ last_cb' = NoCallbackEffect
    /\ UNCHANGED <<mvars, systick_ms, n_systick, bvars, cur_seen, subs_log, n_wake, n_rx, n_cb, n_sub,
                   tick_i, cur_cb, cb_did, n_tick>>

\* an id no set_timer call of a behaviour returns
UnusedTimerId == TIMER_ID_RANGE - 1
\* the ids given to cancel_timer: the handles of the first callbacks, live
\* or not, and two ids that name no timer
CancelIds ==
    {handle[TimerCallbacks[n]] : n \in 1 .. (RichCallbacks + 1)}
        \cup {INVALID_TIMER_ID, UnusedTimerId}

\* cancel_timer called between two tick events
CancelTimerMain(timer_id) ==
    /\ pc = "main"
    /\ n_call < MaxTimerCalls
    /\ DoCancelTimer(timer_id)
    /\ last_cb' = NoCallbackEffect
    /\ UNCHANGED <<mvars, systick_ms, n_systick, bvars, cur_seen, subs_log, n_wake, n_rx, n_cb, n_sub,
                   tick_i, cur_cb, cb_did, n_tick>>

\* the history when the callback of slot i is entered
Entered(callback) == [NoCallbackEffect EXCEPT !.callback = callback]

\* the tick handler runs up to the first expiring timer, whose callback it calls
TickRun(ts, i) ==
    LET r == TickAdvance(ts, i)
    IN /\ timers' = r.timers
       /\ IF r.fire
          THEN /\ pc' = "timer_callback"
               /\ tick_i' = r.i
               /\ cur_cb' = r.timers[r.i].callback
               /\ cb_did' = Entered(r.timers[r.i].callback)
          ELSE /\ pc' = "main"
               /\ tick_i' = 0
               /\ cur_cb' = NULL
               /\ cb_did' = NoCallbackEffect

\* timer_system_tick_event_handler is called with a tick event
TimerTick ==
    /\ pc = "main"
    /\ n_tick < MaxTimerTicks
    /\ n_tick' = n_tick + 1
    /\ TickRun(timers, 0)
    /\ age' = [c \in TimerCallbackSet |-> IF armed[c] # NotArmed THEN age[c] + 1 ELSE age[c]]
    /\ last_cb' = NoCallbackEffect
    /\ UNCHANGED <<qvars, push_event, push_data, push_index, push_ret, push_status,
                   notify_index, pop_status, systick_ms, n_systick, bvars, hvars,
                   next_timer_id, handle, armed, last_call, n_call, n_used, n_plain>>

\* the running callback sets its own timer again
CallbackSetTimer(timeout, repeat) ==
    /\ pc = "timer_callback"
    /\ IsRich(cur_cb)
    /\ cb_did.ops < MaxCallbackOps
    /\ AllowedSet(timeout, cur_cb, repeat)
    /\ DoSetTimer(timeout, cur_cb, repeat)
    /\ cb_did' = [callback |-> cur_cb, did |-> "set", timeout |-> timeout,
                  repeat |-> repeat, ops |-> cb_did.ops + 1]
    /\ last_cb' = NoCallbackEffect
    /\ UNCHANGED <<mvars, systick_ms, n_systick, bvars, cur_seen, subs_log, n_wake, n_rx, n_cb, n_sub,
                   tick_i, cur_cb, n_tick>>

\* the running callback cancels a timer, its own or another one
CallbackCancelTimer(timer_id) ==
    /\ pc = "timer_callback"
    /\ IsRich(cur_cb)
    /\ cb_did.ops < MaxCallbackOps
    /\ n_call < MaxTimerCalls
    /\ DoCancelTimer(timer_id)
    /\ cb_did' = IF timer_id = handle[cur_cb]
                 THEN [callback |-> cur_cb, did |-> "cancel", timeout |-> 0,
                       repeat |-> armed[cur_cb].repeat, ops |-> cb_did.ops + 1]
                 ELSE [cb_did EXCEPT !.ops = @ + 1]
    /\ last_cb' = NoCallbackEffect
    /\ UNCHANGED <<mvars, systick_ms, n_systick, bvars, cur_seen, subs_log, n_wake, n_rx, n_cb, n_sub,
                   tick_i, cur_cb, n_tick>>

\* the callback returns: the handler looks at the counter again and goes on
\* with the next slots
CallbackDone ==
    /\ pc = "timer_callback"
    /\ TickRun(PostExpiry(timers, tick_i), tick_i + 1)
    /\ last_cb' = cb_did
    /\ IF cb_did.did = "none"
       THEN /\ armed' = IF armed[cur_cb].repeat THEN armed
                                                ELSE [armed EXCEPT ![cur_cb] = NotArmed]
            /\ age' = [age EXCEPT ![cur_cb] = 0]
       ELSE UNCHANGED <<armed, age>>
    /\ UNCHANGED <<qvars, push_event, push_data, push_index, push_ret, push_status,
                   notify_index, pop_status, systick_ms, n_systick, bvars, hvars,
                   next_timer_id, handle, last_call, n_call, n_tick, n_used, n_plain>>

InitTimer ==
    /\ EventQueueInit
    /\ InitMain
    /\ InitHistory
    /\ systick_ms = 0
    /\ n_systick = 0
    /\ TimerInit
    /\ InitTimerHistory
    /\ BoardStatic
    /\ InitBoardHistory
    /\ ModulesStatic

\* the client's program starts
TimerStart ==
    /\ pc = "init"
    /\ pc' = "main"
    /\ UNCHANGED <<qvars, push_event, push_data, push_index, push_ret, push_status,
                   notify_index, pop_status, systick_ms, n_systick, bvars, hvars, tvars>>

NextTimer ==
    \/ TimerStart
    \/ \E timeout \in 1 .. MaxTimeout, callback \in TimerCallbackSet, repeat \in BOOLEAN :
          SetTimerMain(timeout, callback, repeat)
    \/ \E timer_id \in CancelIds : CancelTimerMain(timer_id)
    \/ TimerTick
    \/ \E timeout \in 1 .. MaxTimeout, repeat \in BOOLEAN : CallbackSetTimer(timeout, repeat)
    \/ \E timer_id \in CancelIds : CallbackCancelTimer(timer_id)
    \/ CallbackDone

SpecTimer == InitTimer /\ [][NextTimer]_vars

(***************************************************************************)
(* Properties of the timer pool                                            *)
(***************************************************************************)
SetStep == last_call' # last_call /\ last_call'.op = "set"
CancelStep == last_call' # last_call /\ last_call'.op = "cancel"
\* the slots holding a live timer of a callback
SlotsOf(ts, callback) == {i \in TimerSlots : ts[i].callback = callback}
\* the active timers, by owner and id
ActiveTimers(ts) == {<<ts[i].callback, ts[i].id>> : i \in {j \in TimerSlots : ts[j].callback # NULL}}

\* C4: set_timer for a callback that already owns a live timer returns the
\* handle it returned before, leaves that timer live with the new timeout
\* remaining and the new repeat flag, and does not change the number of
\* active timers.
C4_RearmStep ==
    (SetStep /\ armed[last_call'.callback] # NotArmed) =>
        LET c == last_call'.callback
        IN /\ last_call'.ret = handle[c]
           /\ last_call'.ret # INVALID_TIMER_ID
           /\ \E i \in TimerSlots :
                 /\ SlotsOf(timers', c) = {i}
                 /\ timers'[i].id = handle[c]
                 /\ timers'[i].counter = last_call'.timeout
                 /\ timers'[i].repeat = last_call'.repeat
           /\ Cardinality({i \in TimerSlots : timers'[i].callback # NULL})
                = Cardinality({i \in TimerSlots : timers[i].callback # NULL})
C4_Rearm == [][C4_RearmStep]_vars

\* a live timer was set again, with another flag, next to other live timers
C4_Witness ==
    /\ last_call.op = "set"
    /\ last_call.live
    /\ last_call.repeat
    /\ Cardinality({i \in TimerSlots : timers[i].callback # NULL}) >= 2

\* C5: after the callback of an expiring timer returned, the timer is what
\* the callback made of it: set again, it is live with the given timeout
\* remaining and the given repeat flag; cancelled, it is not live, also
\* when it was repeating.
C5_CallbackWins ==
    /\ last_cb.did = "set" =>
          \E i \in TimerSlots :
              /\ SlotsOf(timers, last_cb.callback) = {i}
              /\ timers[i].counter = last_cb.timeout
              /\ timers[i].repeat = last_cb.repeat
    /\ last_cb.did = "cancel" => SlotsOf(timers, last_cb.callback) = {}

\* the callback of a repeating timer cancelled it, and the handler has gone on
C5_Witness ==
    /\ last_cb.did = "cancel"
    /\ last_cb.repeat
    /\ pc = "main"

C7_OverflowStep ==
    (/\ SetStep
     /\ Cardinality({i \in TimerSlots : timers[i].callback # NULL}) = MAX_TIMERS
     /\ SlotsOf(timers, last_call'.callback) = {}) =>
        /\ last_call'.ret = INVALID_TIMER_ID
        /\ last_call'.fault
        /\ timers' = timers
        /\ event_queue_get_num_events < event_queue_get_max_items =>
              /\ event_queue_tail' = (event_queue_tail + 1) % EVENT_QUEUE_SIZE
              /\ event_queue'[event_queue_tail] =
                    [event |-> EVENT_EMERGENCY_FAULT, data |-> Scalar(EMERGENCY_FAULT_OVERFLOW)]
C7_Overflow == [][C7_OverflowStep]_vars

\* a ninth callback was refused and the fault is in the queue
C7_Witness ==
    /\ last_call.op = "set"
    /\ last_call.ret = INVALID_TIMER_ID
    /\ Cardinality({timers[i].callback : i \in TimerSlots} \ {NULL}) = MAX_TIMERS
    /\ last_call.callback \notin {timers[i].callback : i \in TimerSlots}
    /\ fifo # << >>
    /\ fifo[Len(fifo)].event = EVENT_EMERGENCY_FAULT

\* C8: cancel_timer changes no slot but the one holding the given id; with
\* INVALID_TIMER_ID or an id no slot holds it returns LCM_ERROR and changes
\* nothing; with the id of a timer that is not live any more it leaves the
\* active timers as they are.
C8_CancelStep ==
    CancelStep =>
        LET id == last_call'.id
            held == id # INVALID_TIMER_ID /\ \E i \in TimerSlots : timers[i].id = id
        IN /\ \A i \in TimerSlots : (timers[i].id # id \/ ~held) => timers'[i] = timers[i]
           /\ ~held => last_call'.status = LCM_ERROR /\ timers' = timers
           /\ ~last_call'.live => ActiveTimers(timers') = ActiveTimers(timers)
           /\ next_timer_id' = next_timer_id
C8_CancelLocal == [][C8_CancelStep]_vars

\* the handle of a timer that is not live any more was cancelled again,
\* next to live timers
C8_Witness ==
    /\ last_call.op = "cancel"
    /\ ~last_call.live
    /\ last_call.status = LCM_SUCCESS
    /\ Cardinality({i \in TimerSlots : timers[i].callback # NULL}) >= 1

(***************************************************************************)
(* board_mode.c.  A handler runs to completion on the main thread; it is   *)
(* written as a function of the state it reads and writes: the board mode, *)
(* the timer pool, the event queue and the latches.                        *)
(***************************************************************************)
\* the value of an expression that is computed once and then named
The(S) == CHOOSE x \in S : TRUE

BoardState ==
    [mode |-> board_mode, submode |-> board_submode, idle_id |-> board_mode_idle_timer_id,
     hys |-> hysteresis, timers |-> timers, next_timer_id |-> next_timer_id,
     head |-> event_queue_head, tail |-> event_queue_tail, queue |-> event_queue,
     fifo |-> fifo, written |-> written, unanswered |-> fault_unanswered,
     request |-> mode_request]

SetBoardState(st) ==
    /\ board_mode' = st.mode
    /\ board_submode' = st.submode
    /\ board_mode_idle_timer_id' = st.idle_id
    /\ hysteresis' = st.hys
    /\ timers' = st.timers
    /\ next_timer_id' = st.next_timer_id
    /\ event_queue_head' = st.head
    /\ event_queue_tail' = st.tail
    /\ event_queue' = st.queue
    /\ fifo' = st.fifo
    /\ written' = st.written
    /\ fault_unanswered' = st.unanswered
    /\ mode_request' = st.request

\* event_queue_push called by a handler; no caller here reads its result
event_queue_push(st, event, data) ==
    IF HasFreeIndex(st.head, st.tail)
    THEN IF ValidEvent(event)
         THEN [st EXCEPT !.tail = NextTail(st.tail),
                         !.queue[st.tail] = [event |-> event, data |-> data],
                         !.fifo = Append(st.fifo, [event |-> event, data |-> data]),
                         !.written[st.tail] = TRUE]
         ELSE [st EXCEPT !.tail = NextTail(st.tail)]
    ELSE st

InFault(st) == st.mode = BOARD_MODE_FAULT /\ st.submode = BOARD_SUBMODE_UNDEFINED

\* fault(): the result of the push is dropped
raise_fault(st, kind) ==
    [event_queue_push(st, EVENT_EMERGENCY_FAULT, Scalar(kind))
        EXCEPT !.unanswered = st.unanswered \/ ~InFault(st)]

IdleCallback == "board_mode_idle_timer_handler"

\* board_mode_idle_timer_id = set_timer(timeout, board_mode_idle_timer_handler, false)
arm_idle_timer_unarmed(st, timeout) == st
arm_idle_timer(st, timeout) ==
    The({[(IF r.fault
           THEN raise_fault([st EXCEPT !.timers = r.timers,
                                       !.next_timer_id = r.next_timer_id],
                            EMERGENCY_FAULT_OVERFLOW)
           ELSE [st EXCEPT !.timers = r.timers, !.next_timer_id = r.next_timer_id])
             EXCEPT !.idle_id = r.ret] :
         r \in {set_timer(st.timers, st.next_timer_id, timeout, IdleCallback, FALSE)}})

\* the idle timer is cancelled if its id is valid and the timer is active
cancel_idle_timer_skipped(st) == st
cancel_idle_timer(st) ==
    IF st.idle_id # INVALID_TIMER_ID /\ is_timer_active(st.timers, st.idle_id)
    THEN [st EXCEPT !.timers = cancel_timer(st.timers, st.idle_id).timers]
    ELSE st

\* timers managed as if the CONFIG submode needed no cancelling
idle_timer_kept_in_config(st) ==
    IF st.mode = BOARD_MODE_IDLE
    THEN CASE st.submode = BOARD_SUBMODE_IDLE_ACTIVE -> arm_idle_timer(st, IDLE_ACTIVE_TIMEOUT)
           [] st.submode = BOARD_SUBMODE_IDLE_DEFAULT -> arm_idle_timer(st, IDLE_DEFAULT_TIMEOUT)
           [] st.submode = BOARD_SUBMODE_IDLE_DOZING -> arm_idle_timer(st, IDLE_DOZING_TIMEOUT)
           [] st.submode = BOARD_SUBMODE_IDLE_SHUTTING_DOWN ->
                  arm_idle_timer(st, IDLE_SHUTTING_DOWN_TIMEOUT)
           [] st.submode = BOARD_SUBMODE_IDLE_CONFIG -> st
           [] OTHER -> raise_fault(st, EMERGENCY_FAULT_INVALID_STATE)
    ELSE IF st.mode = BOARD_MODE_RIDING \/ st.mode = BOARD_MODE_FAULT
         THEN cancel_idle_timer(st)
         ELSE st

\* what set_board_mode does to the timers once the pair is written
idle_timer_for_mode(st) ==
    IF st.mode = BOARD_MODE_IDLE
    THEN CASE st.submode = BOARD_SUBMODE_IDLE_ACTIVE -> arm_idle_timer(st, IDLE_ACTIVE_TIMEOUT)
           [] st.submode = BOARD_SUBMODE_IDLE_DEFAULT -> arm_idle_timer(st, IDLE_DEFAULT_TIMEOUT)
           [] st.submode = BOARD_SUBMODE_IDLE_DOZING -> arm_idle_timer(st, IDLE_DOZING_TIMEOUT)
           [] st.submode = BOARD_SUBMODE_IDLE_SHUTTING_DOWN ->
                  arm_idle_timer(st, IDLE_SHUTTING_DOWN_TIMEOUT)
           [] st.submode = BOARD_SUBMODE_IDLE_CONFIG -> cancel_idle_timer(st)
           [] OTHER -> raise_fault(st, EMERGENCY_FAULT_INVALID_STATE)
    ELSE IF st.mode = BOARD_MODE_RIDING \/ st.mode = BOARD_MODE_FAULT
         THEN cancel_idle_timer(st)
         ELSE st

\* the record of a set_board_mode(mode, submode) call among those of one
\* pass of the main loop
Requested(request, mode, submode) ==
    [calls |-> request.calls + 1, mode |-> mode, submode |-> submode]

\* set_board_mode; the data of the event is mode, previous_mode, submode,
\* previous_submode
set_board_mode_always(st, mode, submode) ==
    The({[s3 EXCEPT !.unanswered = IF InFault(s3) THEN FALSE ELSE @,
                    !.request = Requested(st.request, mode, submode)] :
         s3 \in {idle_timer_for_mode(s2) :
             s2 \in {[event_queue_push(st, EVENT_BOARD_MODE_CHANGED,
                                       <<mode, st.mode, submode, st.submode>>)
                         EXCEPT !.mode = mode, !.submode = submode]}}})
set_board_mode(st, mode, submode) ==
    IF st.mode # mode \/ st.submode # submode
    THEN The({[s3 EXCEPT !.unanswered = IF InFault(s3) THEN FALSE ELSE @,
                         !.request = Requested(st.request, mode, submode)] :
              s3 \in {idle_timer_for_mode(s2) :
                  s2 \in {[event_queue_push(st, EVENT_BOARD_MODE_CHANGED,
                                            <<mode, st.mode, submode, st.submode>>)
                              EXCEPT !.mode = mode, !.submode = submode]}}})
    ELSE [st EXCEPT !.request = Requested(st.request, mode, submode)]

\* a latch without a band: it resets below the set threshold
apply_hysteresis_no_band(state, set_threshold, reset_threshold, value) ==
    IF state = STATE_RESET /\ value >= set_threshold THEN STATE_SET
    ELSE IF state = STATE_SET /\ value < set_threshold THEN STATE_RESET
    ELSE state

\* apply_hysteresis: the state the latch takes, which is the state returned
apply_hysteresis(state, set_threshold, reset_threshold, value) ==
    IF state = STATE_RESET /\ value >= set_threshold THEN STATE_SET
    ELSE IF state = STATE_SET /\ value < reset_threshold THEN STATE_RESET
    ELSE state

\* the reset thresholds board_mode_init gives the latches
STOPPED_RPM_RESET == STOPPED_RPM_THRESHOLD - (STOPPED_RPM_THRESHOLD \div 10)
SLOW_RPM_RESET == SLOW_RPM_THRESHOLD - (SLOW_RPM_THRESHOLD \div 10)
DUTY_CYCLE_DANGER_RESET == DUTY_CYCLE_DANGER_THRESHOLD - 5
DUTY_CYCLE_WARNING_RESET == DUTY_CYCLE_WARNING_THRESHOLD - 5

Abs(v) == IF v < 0 THEN 0 - v ELSE v

\* set_board_mode(BOARD_MODE_RIDING, submode) unless the submode is current
ride_keeping_mode(st, submode) ==
    The({IF s.submode # submode THEN set_board_mode(s, s.mode, submode) ELSE s :
         s \in {st}})
ride(st, submode) ==
    The({IF s.submode # submode THEN set_board_mode(s, BOARD_MODE_RIDING, submode) ELSE s :
         s \in {st}})

\* update_riding_submode: a latch is applied only when the chain reaches it
update_riding_submode_rpm_first(st) ==
    IF retained.imu_roll > 45 \/ retained.imu_roll < -45
    THEN st
    ELSE
    LET slow == apply_hysteresis(st.hys.slow_rpm, SLOW_RPM_THRESHOLD,
                                 SLOW_RPM_RESET, Abs(retained.rpm))
        s1 == [st EXCEPT !.hys.slow_rpm = slow]
        danger == apply_hysteresis(st.hys.danger, DUTY_CYCLE_DANGER_THRESHOLD,
                                   DUTY_CYCLE_DANGER_RESET, retained.duty_cycle)
        s2 == [s1 EXCEPT !.hys.danger = danger]
    IN IF slow = STATE_SET THEN ride(s1, BOARD_SUBMODE_RIDING_NORMAL)
       ELSE IF danger = STATE_SET THEN ride(s2, BOARD_SUBMODE_RIDING_DANGER)
       ELSE ride(s2, BOARD_SUBMODE_RIDING_STOPPED)
update_riding_submode(st) ==
    IF retained.imu_roll > 45 \/ retained.imu_roll < -45
    THEN st
    ELSE
    LET danger == apply_hysteresis(st.hys.danger, DUTY_CYCLE_DANGER_THRESHOLD,
                                   DUTY_CYCLE_DANGER_RESET, retained.duty_cycle)
        s1 == [st EXCEPT !.hys.danger = danger]
        warning == apply_hysteresis(st.hys.warning, DUTY_CYCLE_WARNING_THRESHOLD,
                                    DUTY_CYCLE_WARNING_RESET, retained.duty_cycle)
        s2 == [s1 EXCEPT !.hys.warning = warning]
        slow == apply_hysteresis(st.hys.slow_rpm, SLOW_RPM_THRESHOLD,
                                 SLOW_RPM_RESET, Abs(retained.rpm))
        s3 == [s2 EXCEPT !.hys.slow_rpm = slow]
        stopped == apply_hysteresis(st.hys.stopped_rpm, STOPPED_RPM_THRESHOLD,
                                    STOPPED_RPM_RESET, Abs(retained.rpm))
        s4 == [s3 EXCEPT !.hys.stopped_rpm = stopped]
    IN IF danger = STATE_SET THEN ride(s1, BOARD_SUBMODE_RIDING_DANGER)
       ELSE IF warning = STATE_SET THEN ride(s2, BOARD_SUBMODE_RIDING_WARNING)
       ELSE IF slow = STATE_SET THEN ride(s3, BOARD_SUBMODE_RIDING_NORMAL)
       ELSE IF stopped = STATE_SET THEN ride(s4, BOARD_SUBMODE_RIDING_SLOW)
       ELSE ride(s4, BOARD_SUBMODE_RIDING_STOPPED)

\* EVENT_HANDLER(board_mode, vesc_alive)
board_mode_vesc_alive_event_handler(st, event, data) ==
    IF event = EVENT_VESC_ALIVE /\ st.mode = BOARD_MODE_BOOTING
    THEN set_board_mode(st, BOARD_MODE_IDLE, BOARD_SUBMODE_IDLE_ACTIVE)
    ELSE st

\* the command handler without the abort of the shutdown on EVENT_BUTTON_UP
board_mode_command_never_aborting(st, event, data) ==
    CASE event = EVENT_COMMAND_BOOT ->
            IF st.mode = BOARD_MODE_OFF
            THEN set_board_mode(st, BOARD_MODE_BOOTING, BOARD_SUBMODE_UNDEFINED)
            ELSE st
      [] event = EVENT_COMMAND_SHUTDOWN ->
            set_board_mode(st, BOARD_MODE_IDLE, BOARD_SUBMODE_IDLE_SHUTTING_DOWN)
      [] event = EVENT_COMMAND_MODE_CONFIG ->
            IF data[1] # 0
            THEN IF st.mode = BOARD_MODE_IDLE
                 THEN set_board_mode(st, BOARD_MODE_IDLE, BOARD_SUBMODE_IDLE_CONFIG)
                 ELSE event_queue_push(st, EVENT_COMMAND_NACK, ZeroData)
            ELSE set_board_mode(st, BOARD_MODE_IDLE, BOARD_SUBMODE_IDLE_ACTIVE)
      [] event = EVENT_IMU_ROLL_CHANGED ->
            IF /\ st.mode = BOARD_MODE_IDLE
               /\ st.submode \in {BOARD_SUBMODE_IDLE_ACTIVE, BOARD_SUBMODE_IDLE_DEFAULT}
               /\ (data[1] > 45 \/ data[1] < -45)
            THEN set_board_mode(st, BOARD_MODE_IDLE, BOARD_SUBMODE_IDLE_DOZING)
            ELSE IF /\ st.mode = BOARD_MODE_IDLE
                    /\ st.submode = BOARD_SUBMODE_IDLE_DOZING
                    /\ data[1] <= 45 /\ data[1] >= -45
                 THEN set_board_mode(st, BOARD_MODE_IDLE, BOARD_SUBMODE_IDLE_ACTIVE)
                 ELSE st
      [] OTHER -> st
\* EVENT_HANDLER(board_mode, command); data[1] is the member the case reads
board_mode_command_event_handler(st, event, data) ==
    CASE event = EVENT_COMMAND_BOOT ->
            IF st.mode = BOARD_MODE_OFF
            THEN set_board_mode(st, BOARD_MODE_BOOTING, BOARD_SUBMODE_UNDEFINED)
            ELSE st
      [] event = EVENT_COMMAND_SHUTDOWN ->
            set_board_mode(st, BOARD_MODE_IDLE, BOARD_SUBMODE_IDLE_SHUTTING_DOWN)
      [] event = EVENT_COMMAND_MODE_CONFIG ->
            IF data[1] # 0
            THEN IF st.mode = BOARD_MODE_IDLE
                 THEN set_board_mode(st, BOARD_MODE_IDLE, BOARD_SUBMODE_IDLE_CONFIG)
                 ELSE event_queue_push(st, EVENT_COMMAND_NACK, ZeroData)
            ELSE set_board_mode(st, BOARD_MODE_IDLE, BOARD_SUBMODE_IDLE_ACTIVE)
      [] event = EVENT_BUTTON_UP ->
            IF st.mode = BOARD_MODE_IDLE /\ st.submode = BOARD_SUBMODE_IDLE_SHUTTING_DOWN
            THEN set_board_mode(st, BOARD_MODE_IDLE, BOARD_SUBMODE_IDLE_ACTIVE)
            ELSE st
      [] event = EVENT_IMU_ROLL_CHANGED ->
            IF /\ st.mode = BOARD_MODE_IDLE
               /\ st.submode \in {BOARD_SUBMODE_IDLE_ACTIVE, BOARD_SUBMODE_IDLE_DEFAULT}
               /\ (data[1] > 45 \/ data[1] < -45)
            THEN set_board_mode(st, BOARD_MODE_IDLE, BOARD_SUBMODE_IDLE_DOZING)
            ELSE IF /\ st.mode = BOARD_MODE_IDLE
                    /\ st.submode = BOARD_SUBMODE_IDLE_DOZING
                    /\ data[1] <= 45 /\ data[1] >= -45
                 THEN set_board_mode(st, BOARD_MODE_IDLE, BOARD_SUBMODE_IDLE_ACTIVE)
                 ELSE st
      [] OTHER -> st

\* board_mode_idle_timer_handler
board_mode_idle_timer_handler_skipping(st) ==
    IF st.mode = BOARD_MODE_IDLE
    THEN CASE st.submode = BOARD_SUBMODE_IDLE_ACTIVE ->
                 set_board_mode(st, BOARD_MODE_IDLE, BOARD_SUBMODE_IDLE_DOZING)
           [] st.submode = BOARD_SUBMODE_IDLE_DEFAULT ->
                 set_board_mode(st, BOARD_MODE_IDLE, BOARD_SUBMODE_IDLE_DOZING)
           [] st.submode = BOARD_SUBMODE_IDLE_DOZING ->
                 set_board_mode(st, BOARD_MODE_IDLE, BOARD_SUBMODE_IDLE_SHUTTING_DOWN)
           [] st.submode = BOARD_SUBMODE_IDLE_SHUTTING_DOWN ->
                 set_board_mode(st, BOARD_MODE_OFF, BOARD_SUBMODE_UNDEFINED)
           [] OTHER -> st
    ELSE st
board_mode_idle_timer_handler(st) ==
    IF st.mode = BOARD_MODE_IDLE
    THEN CASE st.submode = BOARD_SUBMODE_IDLE_ACTIVE ->
                 set_board_mode(st, BOARD_MODE_IDLE, BOARD_SUBMODE_IDLE_DEFAULT)
           [] st.submode = BOARD_SUBMODE_IDLE_DEFAULT ->
                 set_board_mode(st, BOARD_MODE_IDLE, BOARD_SUBMODE_IDLE_DOZING)
           [] st.submode = BOARD_SUBMODE_IDLE_DOZING ->
                 set_board_mode(st, BOARD_MODE_IDLE, BOARD_SUBMODE_IDLE_SHUTTING_DOWN)
           [] st.submode = BOARD_SUBMODE_IDLE_SHUTTING_DOWN ->
                 set_board_mode(st, BOARD_MODE_OFF, BOARD_SUBMODE_UNDEFINED)
           [] OTHER -> st
    ELSE st

\* EVENT_HANDLER(board_mode, rpm_changed)
board_mode_rpm_changed_idle_ignored(st, event, data) ==
    IF st.mode = BOARD_MODE_RIDING
    THEN IF Abs(data[1]) = 0 /\ retained.footpads_state = NONE_FOOTPAD
         THEN set_board_mode(st, BOARD_MODE_IDLE, BOARD_SUBMODE_IDLE_ACTIVE)
         ELSE update_riding_submode(st)
    ELSE st
board_mode_rpm_changed_event_handler(st, event, data) ==
    CASE st.mode = BOARD_MODE_IDLE ->
            IF Abs(data[1]) > 0 THEN update_riding_submode(st) ELSE st
      [] st.mode = BOARD_MODE_RIDING ->
            IF Abs(data[1]) = 0 /\ retained.footpads_state = NONE_FOOTPAD
            THEN set_board_mode(st, BOARD_MODE_IDLE, BOARD_SUBMODE_IDLE_ACTIVE)
            ELSE update_riding_submode(st)
      [] OTHER -> st

\* the duty cycle handler selecting DANGER itself, whatever the roll
board_mode_duty_cycle_changed_roll_blind(st, event, data) ==
    IF st.mode = BOARD_MODE_RIDING
    THEN IF data[1] >= DUTY_CYCLE_DANGER_THRESHOLD
         THEN ride(st, BOARD_SUBMODE_RIDING_DANGER)
         ELSE update_riding_submode(st)
    ELSE st
\* EVENT_HANDLER(board_mode, duty_cycle_changed)
board_mode_duty_cycle_changed_event_handler(st, event, data) ==
    IF st.mode = BOARD_MODE_RIDING THEN update_riding_submode(st) ELSE st

\* EVENT_HANDLER(board_mode, emergency_fault)
board_mode_emergency_fault_event_handler(st, event, data) ==
    set_board_mode(st, BOARD_MODE_FAULT, BOARD_SUBMODE_UNDEFINED)

\* EVENT_HANDLER(board_mode, footpad_changed)
board_mode_footpad_changed_unchecked(st, event, data) ==
    CASE st.mode = BOARD_MODE_IDLE ->
            IF st.submode # BOARD_SUBMODE_IDLE_CONFIG /\ data[1] # NONE_FOOTPAD
            THEN update_riding_submode(st)
            ELSE st
      [] st.mode = BOARD_MODE_RIDING ->
            IF data[1] = NONE_FOOTPAD
            THEN set_board_mode(st, BOARD_MODE_IDLE, BOARD_SUBMODE_IDLE_ACTIVE)
            ELSE st
      [] OTHER -> st
board_mode_footpad_changed_event_handler(st, event, data) ==
    CASE st.mode = BOARD_MODE_IDLE ->
            IF st.submode # BOARD_SUBMODE_IDLE_CONFIG /\ data[1] # NONE_FOOTPAD
            THEN update_riding_submode(st)
            ELSE st
      [] st.mode = BOARD_MODE_RIDING ->
            IF data[1] = NONE_FOOTPAD /\ retained.rpm = 0
            THEN set_board_mode(st, BOARD_MODE_IDLE, BOARD_SUBMODE_IDLE_ACTIVE)
            ELSE st
      [] OTHER -> st

\* timers[i].callback(system_tick), for the callbacks of this model
RunTimerCallback(st, callback) ==
    IF callback = IdleCallback THEN board_mode_idle_timer_handler(st) ELSE st

\* EVENT_HANDLER(timer, system_tick), from slot i on
RECURSIVE timer_system_tick_event_handler(_, _)
timer_system_tick_event_handler(st, i) ==
    IF i >= MAX_TIMERS
    THEN st
    ELSE IF st.timers[i].callback = NULL
         THEN timer_system_tick_event_handler(st, i + 1)
         ELSE The({IF s1.timers[i].counter = 0
                   THEN The({timer_system_tick_event_handler(
                                 [s2 EXCEPT !.timers = PostExpiry(s2.timers, i)], i + 1) :
                             s2 \in {RunTimerCallback(s1, s1.timers[i].callback)}})
                   ELSE timer_system_tick_event_handler(s1, i + 1) :
                   s1 \in {[st EXCEPT !.timers[i].counter = Decrement(@)]}})

\* the call of one subscriber callback
CallSubscriber(st, callback, event, data) ==
    CASE callback = "timer_system_tick_event_handler" ->
            timer_system_tick_event_handler(st, 0)
      [] callback = "board_mode_command_event_handler" ->
            board_mode_command_event_handler(st, event, data)
      [] callback = "board_mode_rpm_changed_event_handler" ->
            board_mode_rpm_changed_event_handler(st, event, data)
      [] callback = "board_mode_emergency_fault_event_handler" ->
            board_mode_emergency_fault_event_handler(st, event, data)
      [] callback = "board_mode_footpad_changed_event_handler" ->
            board_mode_footpad_changed_event_handler(st, event, data)
      [] callback = "board_mode_vesc_alive_event_handler" ->
            board_mode_vesc_alive_event_handler(st, event, data)
      [] callback = "board_mode_duty_cycle_changed_event_handler" ->
            board_mode_duty_cycle_changed_event_handler(st, event, data)
      [] OTHER -> st

\* notify_subscribers, from the entry at index on
RECURSIVE notify_subscribers(_, _, _, _)
notify_subscribers(st, index, event, data) ==
    IF index # 0 /\ InSubscriberRange(index)
    THEN The({notify_subscribers(s, subscribers[index].next, event, data) :
              s \in {IF subscribers[index].callback # NULL
                     THEN CallSubscriber(st, subscribers[index].callback, event, data)
                     ELSE st}})
    ELSE st

\* the subscribe_event calls of timer_init and board_mode_init, in the
\* order system_init makes them
BoardSubscriptions ==
    << <<EVENT_SYS_TICK, "timer_system_tick_event_handler">>,
       <<EVENT_BUTTON_UP, "board_mode_command_event_handler">>,
       <<EVENT_COMMAND_SHUTDOWN, "board_mode_command_event_handler">>,
       <<EVENT_COMMAND_BOOT, "board_mode_command_event_handler">>,
       <<EVENT_COMMAND_MODE_CONFIG, "board_mode_command_event_handler">>,
       <<EVENT_RPM_CHANGED, "board_mode_rpm_changed_event_handler">>,
       <<EVENT_EMERGENCY_FAULT, "board_mode_emergency_fault_event_handler">>,
       <<EVENT_FOOTPAD_CHANGED, "board_mode_footpad_changed_event_handler">>,
       <<EVENT_VESC_ALIVE, "board_mode_vesc_alive_event_handler">>,
       <<EVENT_DUTY_CYCLE_CHANGED, "board_mode_duty_cycle_changed_event_handler">>,
       <<EVENT_IMU_ROLL_CHANGED, "board_mode_command_event_handler">> >>

\* one subscribe_event call on the list and the index of the next pool entry
SubscribeNext(acc, event, callback) ==
    [subs |-> SubscribeList(acc.subs, acc.next_index, event, callback),
     next_index |-> IF acc.subs[event].callback # NULL /\ PoolHasRoom(acc.next_index)
                    THEN acc.next_index + 1 ELSE acc.next_index]

\* the subscriber list after the calls from the n-th on
RECURSIVE SubscribedAll(_, _)
SubscribedAll(acc, n) ==
    IF n > Len(BoardSubscriptions)
    THEN acc
    ELSE The({SubscribedAll(next, n + 1) :
              next \in {SubscribeNext(acc, BoardSubscriptions[n][1],
                                      BoardSubscriptions[n][2])}})

(***************************************************************************)
(* The board: the event queue, the timer pool and board_mode.c under the   *)
(* main loop, the SysTick interrupt and the events of the other modules.   *)
(* One pass of the loop of event_queue_pop_and_notify is one step.         *)
(***************************************************************************)
thvars == <<tick_i, cur_cb, handle, armed, age, last_call, cb_did, last_cb,
            n_call, n_tick, n_used, n_plain>>
qhvars == <<cur_seen, subs_log, n_wake, n_rx, n_cb, n_sub>>

\* the static state, before system_init
InitBoard ==
    /\ EventQueueInit
    /\ InitMain
    /\ InitHistory
    /\ systick_ms = 0
    /\ n_systick = 0
    /\ TimerInit
    /\ InitTimerHistory
    /\ BoardStatic
    /\ InitBoardHistory
    /\ ModulesStatic

\* main(): system_init, in which timer_init and board_mode_init subscribe
\* and board_mode_init sets the mode to OFF, then
\* event_queue_push(EVENT_COMMAND_BOOT, NULL) before the loop
BoardBoot ==
    /\ pc = "init"
    /\ pc' = "main"
    /\ \E subscribed \in {SubscribedAll([subs |-> subscribers,
                                          next_index |-> next_subscriber_index], 1)} :
          /\ subscribers' = subscribed.subs
          /\ next_subscriber_index' = subscribed.next_index
    /\ \E st \in {event_queue_push(
                     [BoardState EXCEPT !.mode = BOARD_MODE_OFF,
                                        !.submode = BOARD_SUBMODE_UNDEFINED],
                     EVENT_COMMAND_BOOT, ZeroData)} : SetBoardState(st)
    /\ UNCHANGED <<push_event, push_data, push_index,
                   push_ret, push_status, notify_index, pop_status, systick_ms, n_systick,
                   qhvars, thvars, retained, delivered, n_mod, n_quiet, stage_ticks, xvars>>

\* the stages of IDLE that set_board_mode gives a timeout
TimedStage(mode, submode) ==
    /\ mode = BOARD_MODE_IDLE
    /\ submode \in {BOARD_SUBMODE_IDLE_ACTIVE, BOARD_SUBMODE_IDLE_DEFAULT,
                    BOARD_SUBMODE_IDLE_DOZING, BOARD_SUBMODE_IDLE_SHUTTING_DOWN}

\* the idle timer is active
IdleTimerActive(ts) == \E i \in TimerSlots : ts[i].callback = IdleCallback

\* one pass of the loop of event_queue_pop_and_notify: the subscribers of the
\* event at the head are called, then the head advances
Deliver ==
    /\ pc = "main"
    /\ ~is_queue_empty
    /\ LET slot == event_queue[event_queue_head]
       IN /\ \E st \in {[BoardState EXCEPT !.request = NoRequest]} :
               \E s1 \in {notify_subscribers(st, slot.event, slot.event, slot.data)} :
                  \E s2 \in {[s1 EXCEPT !.head = NextHead(s1.head),
                                        !.fifo = IF s1.fifo = << >> THEN s1.fifo
                                                                    ELSE Tail(s1.fifo)]} :
                     /\ SetBoardState(s2)
                     /\ stage_ticks' =
                           IF ~TimedStage(s2.mode, s2.submode) THEN 0
                           ELSE IF s2.mode # board_mode \/ s2.submode # board_submode THEN 0
                           ELSE IF slot.event = EVENT_SYS_TICK THEN stage_ticks + 1
                           ELSE stage_ticks
          /\ delivered' = [event |-> slot.event, data |-> slot.data,
                           mode |-> board_mode, submode |-> board_submode,
                           idle_timer |-> IdleTimerActive(timers)]
    /\ UNCHANGED <<subscribers, next_subscriber_index, mvars, systick_ms, n_systick,
                   qhvars, thvars, retained, n_mod, n_quiet, xvars>>

\* the commands and the alive message the other modules push
CommandEvents ==
    {<<EVENT_VESC_ALIVE, 0>>, <<EVENT_COMMAND_BOOT, 0>>, <<EVENT_COMMAND_SHUTDOWN, 0>>,
     <<EVENT_COMMAND_MODE_CONFIG, 0>>, <<EVENT_COMMAND_MODE_CONFIG, 1>>, <<EVENT_BUTTON_UP, 0>>}

\* the events and faults the other modules have raised are fewer than max
Budget(max) == n_mod < max

\* a handler of another module pushes a command
CommandPush(event, value) ==
    /\ pc = "main"
    /\ n_mod' = n_mod + 1
    /\ \E st \in {event_queue_push(BoardState, event, Scalar(value))} : SetBoardState(st)
    /\ UNCHANGED <<subscribers, next_subscriber_index, mvars, systick_ms, n_systick,
                   qhvars, thvars, retained, delivered, n_quiet, stage_ticks, xvars>>

\* the values the telemetry takes
RpmValues == {0, 3000}
DutyValues == {0, 95}
RollValues == {0, 50}
FootpadValues == {NONE_FOOTPAD, LEFT_FOOTPAD + RIGHT_FOOTPAD}
TelemetryEvents ==
    ({<<"rpm", EVENT_RPM_CHANGED>>} \X RpmValues)
        \cup ({<<"duty_cycle", EVENT_DUTY_CYCLE_CHANGED>>} \X DutyValues)
        \cup ({<<"imu_roll", EVENT_IMU_ROLL_CHANGED>>} \X RollValues)
        \cup ({<<"footpads_state", EVENT_FOOTPAD_CHANGED>>} \X FootpadValues)

\* vesc_serial.c, footpads.c: a value that changed is pushed as its event
\* and retained, whatever the push returned
TelemetryPush(field, event, value) ==
    /\ pc = "main"
    /\ retained[field] # value
    /\ n_mod' = n_mod + 1
    /\ retained' = [retained EXCEPT ![field] = value]
    /\ \E st \in {event_queue_push(BoardState, event, Scalar(value))} : SetBoardState(st)
    /\ UNCHANGED <<subscribers, next_subscriber_index, mvars, systick_ms, n_systick,
                   qhvars, thvars, delivered, n_quiet, stage_ticks, xvars>>

\* a handler of another module calls fault(kind)
ModuleFault(kind) ==
    /\ pc = "main"
    /\ n_mod' = n_mod + 1
    /\ \E st \in {raise_fault(BoardState, kind)} : SetBoardState(st)
    /\ UNCHANGED <<subscribers, next_subscriber_index, mvars, systick_ms, n_systick,
                   qhvars, thvars, retained, delivered, n_quiet, stage_ticks, xvars>>

\* the smallest counter of a live timer
MinCounter(ts) ==
    CHOOSE c \in {ts[i].counter : i \in {j \in TimerSlots : ts[j].callback # NULL}} :
        \A i \in {j \in TimerSlots : ts[j].callback # NULL} : c <= ts[i].counter

\* a run of SysTick interrupts, each delivered to the tick handler before
\* the next, up to the tick before the first timer expires: every live
\* counter is decremented once per tick and no callback is called
QuietRun(runs) ==
    /\ pc = "main"
    /\ is_queue_empty
    /\ n_quiet < runs
    /\ timer_active_count(timers) > 0
    /\ MinCounter(timers) > 1
    /\ n_quiet' = n_quiet + 1
    /\ systick_ms' = systick_ms + (MinCounter(timers) - 1)
    /\ stage_ticks' = IF TimedStage(board_mode, board_submode)
                      THEN stage_ticks + (MinCounter(timers) - 1)
                      ELSE stage_ticks
    /\ timers' = [i \in TimerSlots |->
                    IF timers[i].callback # NULL
                    THEN [timers[i] EXCEPT !.counter = @ - (MinCounter(timers) - 1)]
                    ELSE timers[i]]
    /\ UNCHANGED <<qvars, mvars, n_systick, hvars, next_timer_id, thvars,
                   board_mode, board_submode, board_mode_idle_timer_id, hysteresis,
                   retained, delivered, fault_unanswered, mode_request, n_mod, xvars>>

QuietTicks == QuietRun(MaxQuietRuns)

\* the producers of the board leave the main loop the time to drain
Drained == event_queue_get_num_events < MaxPending

NextBoard ==
    \/ BoardBoot
    \/ Drained /\ n_systick < MaxBoardTicks /\ SysTick_Handler
    \/ Deliver
    \/ \E c \in CommandEvents :
          Drained /\ Budget(MaxModuleEvents) /\ CommandPush(c[1], c[2])
    \/ \E t \in TelemetryEvents :
          Drained /\ Budget(MaxModuleEvents) /\ TelemetryPush(t[1][1], t[1][2], t[2])
    \/ Drained /\ Budget(MaxModuleEvents) /\ ModuleFault(EMERGENCY_FAULT_VESC)
    \/ QuietTicks

SpecBoard == InitBoard /\ [][NextBoard]_vars

\* the board with producers that do not wait for the main loop: the alive
\* message, the SysTick interrupt and the faults of the other modules
NextFault ==
    \/ BoardBoot
    \/ SysTick_Handler
    \/ Deliver
    \/ Budget(MaxModuleEvents) /\ CommandPush(EVENT_VESC_ALIVE, 0)
    \/ Budget(MaxModuleEvents) /\ ModuleFault(EMERGENCY_FAULT_VESC)

SpecFault == InitBoard /\ [][NextFault]_vars

\* the board left alone after boot: COMMAND_BOOT, the alive message while the
\* board is OFF or BOOTING, and from then on tick events only
NextIdle ==
    \/ BoardBoot
    \/ Drained /\ SysTick_Handler
    \/ Deliver
    \/ /\ board_mode \in {BOARD_MODE_OFF, BOARD_MODE_BOOTING}
       /\ Drained
       /\ Budget(MaxModuleEvents)
       /\ CommandPush(EVENT_VESC_ALIVE, 0)
    \/ QuietRun(MaxIdleStages)

SpecIdle == InitBoard /\ [][NextIdle]_vars

\* the board under a rider: the alive message while the board is OFF or
\* BOOTING, then the telemetry of the controller and the footpads, with
\* values on both sides of every threshold
RideRpmValues == {0, 100, 3000}
RideDutyValues == {0, 82, 95}
RideEvents ==
    ({<<"rpm", EVENT_RPM_CHANGED>>} \X RideRpmValues)
        \cup ({<<"duty_cycle", EVENT_DUTY_CYCLE_CHANGED>>} \X RideDutyValues)
        \cup ({<<"imu_roll", EVENT_IMU_ROLL_CHANGED>>} \X RollValues)
        \cup ({<<"footpads_state", EVENT_FOOTPAD_CHANGED>>} \X FootpadValues)

NextRide ==
    \/ BoardBoot
    \/ Deliver
    \/ /\ board_mode \in {BOARD_MODE_OFF, BOARD_MODE_BOOTING}
       /\ Drained
       /\ Budget(MaxRideEvents)
       /\ CommandPush(EVENT_VESC_ALIVE, 0)
    \/ \E t \in RideEvents :
          Drained /\ Budget(MaxRideEvents) /\ TelemetryPush(t[1][1], t[1][2], t[2])

SpecRide == InitBoard /\ [][NextRide]_vars

\* ---- hysteresis.c on its own: one latch and the samples applied to it ----

\* hysteresis_init on a latch l: the thresholds are stored only when
\* set_threshold >= reset_threshold
hysteresis_init(l, set_threshold, reset_threshold) ==
    IF set_threshold < reset_threshold
    THEN [l EXCEPT !.status = LCM_ERROR, !.state = STATE_ERROR, !.trace = << >>]
    ELSE [l EXCEPT !.status = LCM_SUCCESS, !.state = STATE_RESET,
                   !.set_threshold = set_threshold,
                   !.reset_threshold = reset_threshold, !.trace = << >>]

\* the thresholds and the samples of the latch under test
LatchThresholds == {LatchLow, LatchHigh}
LatchSamples == 0..(LatchHigh + 1)

InitLatch ==
    /\ EventQueueInit
    /\ InitMain
    /\ InitHistory
    /\ systick_ms = 0
    /\ n_systick = 0
    /\ TimerInit
    /\ InitTimerHistory
    /\ BoardStatic
    /\ InitBoardHistory
    /\ \E set_threshold \in LatchThresholds, reset_threshold \in LatchThresholds :
          latch = hysteresis_init(LatchStatic, set_threshold, reset_threshold)
    /\ vesc = VescStatic

\* apply_hysteresis(&latch, value): the new state is stored and reported
ApplyHysteresis(value) ==
    /\ Len(latch.trace) < MaxSamples
    /\ \E state \in {IF latch.state = STATE_ERROR THEN STATE_ERROR
                      ELSE apply_hysteresis(latch.state, latch.set_threshold,
                                            latch.reset_threshold, value)} :
          latch' = [latch EXCEPT !.state = state,
                                 !.trace = Append(@, [value |-> value, state |-> state])]
    /\ UNCHANGED <<qvars, mvars, systick_ms, n_systick, hvars, tvars,
                   board_mode, board_submode, board_mode_idle_timer_id, hysteresis,
                   retained, delivered, fault_unanswered, mode_request, n_mod,
                   n_quiet, stage_ticks, vesc>>

\* hysteresis_init called again on the latch
HysteresisInit(set_threshold, reset_threshold) ==
    /\ latch.trace # << >>
    /\ latch' = hysteresis_init(latch, set_threshold, reset_threshold)
    /\ UNCHANGED <<qvars, mvars, systick_ms, n_systick, hvars, tvars,
                   board_mode, board_submode, board_mode_idle_timer_id, hysteresis,
                   retained, delivered, fault_unanswered, mode_request, n_mod,
                   n_quiet, stage_ticks, vesc>>

NextLatch ==
    \/ \E value \in LatchSamples : ApplyHysteresis(value)
    \/ \E set_threshold \in LatchThresholds, reset_threshold \in LatchThresholds :
          HysteresisInit(set_threshold, reset_threshold)

SpecLatch == InitLatch /\ [][NextLatch]_vars

\* ---- vesc_serial.c on its own: the frame decoder and the request counter ----

COMM_GET_VALUES_SETUP_SELECTIVE == 51
COMM_GET_VALUES_SETUP_SELECTIVE_RESPONSE_LENGTH == 16
\* 0x101b0
COMM_GET_VALUES_SETUP_SELECTIVE_MASK == 65968
START_BYTE == 2
END_BYTE == 3
MAX_PACKET_LENGTH == 32
MAX_OUTSTANDING_PACKETS == 5
POLLING_INTERVAL_MS == 250
\* the sanity bounds of process_comm_get_values_setup_selective; the 16-bit
\* fields are kept in tenths, as the frame carries them
DUTY_CYCLE_LIMIT == 1000
RPM_LIMIT == 25000
BATTERY_LEVEL_LIMIT == 1000

INT32_MAX == 2147483647
INT32_MIN == (0 - 2147483647) - 1

\* exclusive or of two bytes
RECURSIVE XorByte(_, _)
XorByte(a, b) ==
    IF a = 0 THEN b
    ELSE IF b = 0 THEN a
    ELSE 2 * XorByte(a \div 2, b \div 2) + ((a + b) % 2)

\* one shift of the CRC register: crc << 1, exclusive-ored with the
\* polynomial 0x1021 when the bit shifted out is set
CrcShift(crc) ==
    IF crc >= 32768
    THEN The({(IF (c \div 4096) % 2 = 1 THEN c - 4096 ELSE c + 4096)
                 + (IF (c \div 32) % 2 = 1 THEN 0 - 32 ELSE 32) + 1 :
              c \in {(2 * crc) % 65536}})
    ELSE 2 * crc

RECURSIVE CrcShifts(_, _)
CrcShifts(crc, n) ==
    IF n = 0 THEN crc ELSE The({CrcShifts(c, n - 1) : c \in {CrcShift(crc)}})

\* crc16_ccitt(data, length): CRC-16-CCITT with initial value 0, the most
\* significant bit first
RECURSIVE crc16_ccitt_from(_, _, _)
crc16_ccitt_from(crc, data, i) ==
    IF i > Len(data) THEN crc
    ELSE The({crc16_ccitt_from(c, data, i + 1) :
              c \in {CrcShifts(XorByte(crc \div 256, data[i]) * 256 + (crc % 256), 8)}})

crc16_ccitt(data) == crc16_ccitt_from(0, data, 1)

\* the board state and the state of vesc_serial.c, for the handlers below
VescState ==
    [mode |-> board_mode, submode |-> board_submode, idle_id |-> board_mode_idle_timer_id,
     hys |-> hysteresis, timers |-> timers, next_timer_id |-> next_timer_id,
     head |-> event_queue_head, tail |-> event_queue_tail, queue |-> event_queue,
     fifo |-> fifo, written |-> written, unanswered |-> fault_unanswered,
     request |-> mode_request, vesc |-> vesc]

SetVescState(s) ==
    /\ SetBoardState(s)
    /\ vesc' = s.vesc

\* a handler of vesc_serial.c starts: nothing done yet
VescEntered == [VescState EXCEPT !.vesc.faults = << >>, !.vesc.called = FALSE]

\* fault(kind) called by vesc_serial.c
vesc_fault(s, kind) ==
    The({[s1 EXCEPT !.vesc.faults = Append(@, kind)] : s1 \in {raise_fault(s, kind)}})

clear_outstanding_packets(s) ==
    [s EXCEPT !.vesc.called = @ \/ s.vesc.callback,
              !.vesc.callback = FALSE,
              !.vesc.outstanding = 0]

\* buffer_get_int16, buffer_get_uint32 and buffer_get_int32 on the bytes of
\* b from index i (counted from 1) on, the most significant byte first
buffer_get_int16(b, i) ==
    IF b[i] >= 128 THEN (b[i] - 256) * 256 + b[i + 1] ELSE b[i] * 256 + b[i + 1]
buffer_get_int32(b, i) ==
    (((IF b[i] >= 128 THEN b[i] - 256 ELSE b[i]) * 256 + b[i + 1]) * 256 + b[i + 2]) * 256
        + b[i + 3]
\* the masks compared here are below 2^31
buffer_get_uint32(b, i) == ((b[i] * 256 + b[i + 1]) * 256 + b[i + 2]) * 256 + b[i + 3]

\* values.rpm = buffer_get_float32(..., 1.0f): the int32 is converted to
\* float and back. Up to 2^24 the float is exact; from 2^31 - 64 on it is
\* 2^31, which no int32 holds: the conversion back is undefined, and undefined
\* is the value the build gives it. The values between are not used here.
RpmOfInt32(v, undefined) ==
    IF v >= INT32_MAX - 63 THEN undefined ELSE v

\* the values a build gives the undefined conversion: saturation, or the
\* integer indefinite value
UndefinedRpm == {INT32_MAX, INT32_MIN}

\* a decoder that publishes a value whether or not it has changed
publish_always(s, field, event, value) ==
    The({[s1 EXCEPT !.vesc.values[field] = value] :
         s1 \in {event_queue_push(s, event, Scalar(value))}})

\* a field that changed is pushed as its event and retained
publish_changed(s, field, event, value) ==
    IF value # s.vesc.values[field]
    THEN The({[s1 EXCEPT !.vesc.values[field] = value] :
              s1 \in {event_queue_push(s, event, Scalar(value))}})
    ELSE s

\* the end of process_comm_get_values_setup_selective, once the values
\* passed the checks
publish_values(s, duty_cycle, rpm, battery_level, vesc_fault_code) ==
    The({IF vesc_fault_code # s3.vesc.values.fault
         THEN The({[s4 EXCEPT !.vesc.values.fault = vesc_fault_code] :
                   s4 \in {vesc_fault(s3, EMERGENCY_FAULT_VESC)}})
         ELSE s3 :
         s3 \in {publish_changed(s2, "battery_level", EVENT_BATTERY_LEVEL_CHANGED,
                                 battery_level) :
                 s2 \in {publish_changed(s1, "rpm", EVENT_RPM_CHANGED, rpm) :
                         s1 \in {publish_changed(s, "duty_cycle",
                                                 EVENT_DUTY_CYCLE_CHANGED, duty_cycle)}}}})

\* a decoder that publishes each value as soon as it has passed its own check
process_values_publishing_early(s, payload, packet_length, undefined) ==
    IF packet_length # COMM_GET_VALUES_SETUP_SELECTIVE_RESPONSE_LENGTH
    THEN vesc_fault(s, EMERGENCY_FAULT_INVALID_LENGTH)
    ELSE IF buffer_get_uint32(payload, 2) # COMM_GET_VALUES_SETUP_SELECTIVE_MASK
    THEN vesc_fault(s, EMERGENCY_FAULT_OUT_OF_BOUNDS)
    ELSE The({
        IF duty_cycle < 0 - DUTY_CYCLE_LIMIT \/ duty_cycle > DUTY_CYCLE_LIMIT
        THEN vesc_fault(s, EMERGENCY_FAULT_OUT_OF_BOUNDS)
        ELSE The({
            IF rpm < 0 - RPM_LIMIT \/ rpm > RPM_LIMIT
            THEN vesc_fault(s1, EMERGENCY_FAULT_OUT_OF_BOUNDS)
            ELSE The({
                IF battery_level < 0 \/ battery_level > BATTERY_LEVEL_LIMIT
                THEN vesc_fault(s2, EMERGENCY_FAULT_OUT_OF_BOUNDS)
                ELSE publish_values(s2, duty_cycle, rpm, battery_level, payload[16]) :
                s2 \in {publish_changed(s1, "rpm", EVENT_RPM_CHANGED, rpm)}}) :
            s1 \in {publish_changed(s, "duty_cycle", EVENT_DUTY_CYCLE_CHANGED,
                                    duty_cycle)}}) :
        duty_cycle \in {buffer_get_int16(payload, 6)},
        rpm \in {RpmOfInt32(buffer_get_int32(payload, 8), undefined)},
        battery_level \in {buffer_get_int16(payload, 14)}})

\* process_comm_get_values_setup_selective, without ENABLE_VOLTAGE_MONITORING
process_comm_get_values_setup_selective(s, payload, packet_length, undefined) ==
    IF packet_length # COMM_GET_VALUES_SETUP_SELECTIVE_RESPONSE_LENGTH
    THEN vesc_fault(s, EMERGENCY_FAULT_INVALID_LENGTH)
    ELSE IF buffer_get_uint32(payload, 2) # COMM_GET_VALUES_SETUP_SELECTIVE_MASK
    THEN vesc_fault(s, EMERGENCY_FAULT_OUT_OF_BOUNDS)
    ELSE The({
        IF duty_cycle < 0 - DUTY_CYCLE_LIMIT \/ duty_cycle > DUTY_CYCLE_LIMIT
        THEN vesc_fault(s, EMERGENCY_FAULT_OUT_OF_BOUNDS)
        ELSE IF rpm < 0 - RPM_LIMIT \/ rpm > RPM_LIMIT
        THEN vesc_fault(s, EMERGENCY_FAULT_OUT_OF_BOUNDS)
        ELSE IF battery_level < 0 \/ battery_level > BATTERY_LEVEL_LIMIT
        THEN vesc_fault(s, EMERGENCY_FAULT_OUT_OF_BOUNDS)
        ELSE publish_values(s, duty_cycle, rpm, battery_level, payload[16]) :
        duty_cycle \in {buffer_get_int16(payload, 6)},
        rpm \in {RpmOfInt32(buffer_get_int32(payload, 8), undefined)},
        battery_level \in {buffer_get_int16(payload, 14)}})

\* a decoder that announces the VESC on every frame it processes
process_packet_always_alive(s, payload, packet_length, undefined) ==
    The({IF payload[1] = COMM_GET_VALUES_SETUP_SELECTIVE
         THEN process_comm_get_values_setup_selective(s1, payload, packet_length, undefined)
         ELSE s1 :
         s1 \in {The({[s0 EXCEPT !.vesc.alive = TRUE] :
                      s0 \in {event_queue_push(s, EVENT_VESC_ALIVE, ZeroData)}})}})

\* process_packet, without ENABLE_IMU_EVENTS
process_packet(s, payload, packet_length, undefined) ==
    The({IF payload[1] = COMM_GET_VALUES_SETUP_SELECTIVE
         THEN process_comm_get_values_setup_selective(s1, payload, packet_length, undefined)
         ELSE s1 :
         s1 \in {IF ~s.vesc.alive
                 THEN The({[s0 EXCEPT !.vesc.alive = TRUE] :
                           s0 \in {event_queue_push(s, EVENT_VESC_ALIVE, ZeroData)}})
                 ELSE s}})

\* the payload array of the handler as it is declared
NoPayload == [i \in 1..MAX_PACKET_LENGTH |-> 0]

\* the frame that starts behind the START_BYTE just popped: rest is what the
\* buffer holds behind it. A frame that is not complete is popped as far as
\* it goes and the handler returns; so it does when the length is too large.
\* Yields the state, the byte last popped and the payload array; the byte is
\* START_BYTE where the handler returned.
read_frame(s, rest, payload, undefined) ==
    IF rest = << >> THEN <<[s EXCEPT !.vesc.rx = << >>], START_BYTE, payload>>
    ELSE IF rest[1] > MAX_PACKET_LENGTH
    THEN <<[s EXCEPT !.vesc.rx = Tail(rest)], START_BYTE, payload>>
    ELSE IF Len(rest) < rest[1] + 4
    THEN <<[s EXCEPT !.vesc.rx = << >>], START_BYTE, payload>>
    ELSE The({
        <<IF end = END_BYTE /\ crc16_ccitt(SubSeq(read, 1, packet_length)) = crc
          THEN process_packet([s EXCEPT !.vesc.rx = left], read, packet_length, undefined)
          ELSE [s EXCEPT !.vesc.rx = left],
          end, read>> :
        packet_length \in {rest[1]},
        read \in {[i \in 1..MAX_PACKET_LENGTH |->
                      IF i <= rest[1] THEN rest[1 + i] ELSE payload[i]]},
        crc \in {rest[rest[1] + 2] * 256 + rest[rest[1] + 3]},
        end \in {rest[rest[1] + 4]},
        left \in {SubSeq(rest, rest[1] + 5, Len(rest))}})

\* the loop of the handler: while the byte last popped is not START_BYTE and
\* the buffer gives another byte
RECURSIVE vesc_serial_rx_scan(_, _, _, _)
vesc_serial_rx_scan(s, byte, payload, undefined) ==
    IF byte = START_BYTE \/ s.vesc.rx = << >> THEN s
    ELSE IF Head(s.vesc.rx) # START_BYTE
    THEN The({vesc_serial_rx_scan(s1, b, payload, undefined) :
              s1 \in {[s EXCEPT !.vesc.rx = Tail(@)]}, b \in {Head(s.vesc.rx)}})
    ELSE The({vesc_serial_rx_scan(r[1], r[2], r[3], undefined) :
              r \in {read_frame(s, Tail(s.vesc.rx), payload, undefined)}})

\* EVENT_HANDLER(vesc_serial, rx)
vesc_serial_rx_event_handler(s, undefined) ==
    The({vesc_serial_rx_scan(s1, 0, NoPayload, undefined) :
         s1 \in {clear_outstanding_packets(s)}})

\* TIMER_CALLBACK(vesc_serial, tx); uint8_t counts the outstanding requests
vesc_serial_tx_timer_callback(s) ==
    IF s.vesc.alive
    THEN IF s.vesc.outstanding >= MAX_OUTSTANDING_PACKETS
         THEN The({clear_outstanding_packets([s1 EXCEPT !.vesc.alive = FALSE]) :
                   s1 \in {vesc_fault([s EXCEPT !.vesc.outstanding = (@ + 1) % 256],
                                      EMERGENCY_FAULT_VESC_COMM_TIMEOUT)}})
         ELSE [s EXCEPT !.vesc.outstanding = (@ + 1) % 256]
    ELSE s

TxCallback == "vesc_serial_tx_timer_callback"

\* a handler that leaves the poll timer running in the modes without polling
board_mode_change_never_cancelling(s, data) ==
    IF data[1] \in {BOARD_MODE_BOOTING, BOARD_MODE_IDLE, BOARD_MODE_RIDING}
    THEN IF s.vesc.tx_timerid = INVALID_TIMER_ID
            \/ ~is_timer_active(s.timers, s.vesc.tx_timerid)
         THEN The({[(IF r.fault
                     THEN vesc_fault([s EXCEPT !.timers = r.timers,
                                               !.next_timer_id = r.next_timer_id],
                                     EMERGENCY_FAULT_OVERFLOW)
                     ELSE [s EXCEPT !.timers = r.timers,
                                    !.next_timer_id = r.next_timer_id])
                       EXCEPT !.vesc.tx_timerid = r.ret] :
                   r \in {set_timer(s.timers, s.next_timer_id, POLLING_INTERVAL_MS,
                                    TxCallback, TRUE)}})
         ELSE s
    ELSE [s EXCEPT !.vesc.alive = FALSE]

\* EVENT_HANDLER(vesc_serial, board_mode_change)
vesc_serial_board_mode_change_event_handler(s, data) ==
    IF data[1] \in {BOARD_MODE_BOOTING, BOARD_MODE_IDLE, BOARD_MODE_RIDING}
    THEN IF s.vesc.tx_timerid = INVALID_TIMER_ID
            \/ ~is_timer_active(s.timers, s.vesc.tx_timerid)
         THEN The({[(IF r.fault
                     THEN vesc_fault([s EXCEPT !.timers = r.timers,
                                               !.next_timer_id = r.next_timer_id],
                                     EMERGENCY_FAULT_OVERFLOW)
                     ELSE [s EXCEPT !.timers = r.timers,
                                    !.next_timer_id = r.next_timer_id])
                       EXCEPT !.vesc.tx_timerid = r.ret] :
                   r \in {set_timer(s.timers, s.next_timer_id, POLLING_INTERVAL_MS,
                                    TxCallback, TRUE)}})
         ELSE s
    ELSE IF s.vesc.tx_timerid # INVALID_TIMER_ID
            /\ is_timer_active(s.timers, s.vesc.tx_timerid)
         THEN [s EXCEPT !.vesc.alive = FALSE,
                        !.timers = cancel_timer(s.timers, s.vesc.tx_timerid).timers,
                        !.vesc.tx_timerid = INVALID_TIMER_ID]
         ELSE [s EXCEPT !.vesc.alive = FALSE]

\* the subscribe_event calls of vesc_serial_init
VescSubscriptions ==
    << <<EVENT_SERIAL_DATA_RX, "vesc_serial_rx_event_handler">>,
       <<EVENT_BOARD_MODE_CHANGED, "vesc_serial_board_mode_change_event_handler">> >>

\* vesc_serial_check_busy_and_set_callback
vesc_serial_check_busy_and_set_callback(s) ==
    IF s.vesc.alive /\ s.vesc.outstanding > 0
    THEN [s EXCEPT !.vesc.callback = TRUE]
    ELSE s

\* ---- the frames the line delivers ----

\* a 16-bit and a 32-bit signed value as bytes, the most significant first
Int16Bytes(v) == <<(v \div 256) % 256, v % 256>>
Int32Bytes(v) == <<(v \div 16777216) % 256, (v \div 65536) % 256, (v \div 256) % 256, v % 256>>

\* the payload of a COMM_GET_VALUES_SETUP_SELECTIVE response: command id,
\* mask, duty cycle, RPM, input voltage, battery level, fault
ValuesPayload(mask, duty_cycle, rpm, battery_level, vesc_fault_code) ==
    <<COMM_GET_VALUES_SETUP_SELECTIVE>> \o Int32Bytes(mask) \o Int16Bytes(duty_cycle)
        \o Int32Bytes(rpm) \o <<0, 0>> \o Int16Bytes(battery_level) \o <<vesc_fault_code>>

\* START LEN PAYLOAD CRC16 END, with the given CRC and end byte
FrameWith(payload, crc, end) ==
    <<START_BYTE, Len(payload)>> \o payload \o <<crc \div 256, crc % 256, end>>
Frame(payload) == FrameWith(payload, crc16_ccitt(payload), END_BYTE)

\* payloads that pass every check
ValidPayloads ==
    {ValuesPayload(COMM_GET_VALUES_SETUP_SELECTIVE_MASK, v[1], v[2], v[3], v[4]) :
        v \in {<<500, 3000, 800, 0>>, <<0 - 200, 100, 800, 1>>}}

\* payloads that fail one check of process_comm_get_values_setup_selective,
\* every other value being new
InvalidPayloads ==
    {<<COMM_GET_VALUES_SETUP_SELECTIVE>>,
     SubSeq(ValuesPayload(COMM_GET_VALUES_SETUP_SELECTIVE_MASK, 500, 3000, 800, 1), 1, 15),
     ValuesPayload(COMM_GET_VALUES_SETUP_SELECTIVE_MASK, 500, 3000, 800, 1) \o <<0>>}
    \cup
    {ValuesPayload(v[1], v[2], v[3], v[4], 1) :
        v \in {<<COMM_GET_VALUES_SETUP_SELECTIVE_MASK + 1, 500, 3000, 800>>,
               <<COMM_GET_VALUES_SETUP_SELECTIVE_MASK, DUTY_CYCLE_LIMIT + 1, 3000, 800>>,
               <<COMM_GET_VALUES_SETUP_SELECTIVE_MASK, 0 - DUTY_CYCLE_LIMIT - 1, 3000, 800>>,
               <<COMM_GET_VALUES_SETUP_SELECTIVE_MASK, 500, RPM_LIMIT + 1, 800>>,
               <<COMM_GET_VALUES_SETUP_SELECTIVE_MASK, 500, 0 - RPM_LIMIT - 1, 800>>,
               <<COMM_GET_VALUES_SETUP_SELECTIVE_MASK, 500, INT32_MAX, 800>>,
               <<COMM_GET_VALUES_SETUP_SELECTIVE_MASK, 500, 3000, BATTERY_LEVEL_LIMIT + 1>>,
               <<COMM_GET_VALUES_SETUP_SELECTIVE_MASK, 500, 3000, 0 - 1>>}}

\* a payload with one byte changed after the CRC was computed
Tampered(payload, i) == [payload EXCEPT ![i] = (@ + 1) % 256]

ValidFrames == {Frame(p) : p \in ValidPayloads}
InvalidFrames == {Frame(p) : p \in InvalidPayloads}
\* valid START, LEN and END bytes and a CRC that is not the payload's
BadCrcFrames ==
    {FrameWith(Tampered(p, 7), crc16_ccitt(p), END_BYTE) : p \in ValidPayloads}
        \cup {FrameWith(p, (crc16_ccitt(p) + 1) % 65536, END_BYTE) :
                  p \in {<<COMM_GET_VALUES_SETUP_SELECTIVE>>}}
\* an unknown command, a frame whose last byte is not END_BYTE, and a frame
\* that follows a frame with a wrong CRC
OtherFrames ==
    {Frame(<<0>>),
     FrameWith(<<COMM_GET_VALUES_SETUP_SELECTIVE>>,
               crc16_ccitt(<<COMM_GET_VALUES_SETUP_SELECTIVE>>), 0),
     FrameWith(<<COMM_GET_VALUES_SETUP_SELECTIVE>>,
               (crc16_ccitt(<<COMM_GET_VALUES_SETUP_SELECTIVE>>) + 1) % 65536, END_BYTE)
         \o Frame(ValuesPayload(COMM_GET_VALUES_SETUP_SELECTIVE_MASK, 500, 3000, 800, 0))}
Frames == ValidFrames \cup InvalidFrames \cup BadCrcFrames \cup OtherFrames

\* vesc_serial_init, on the static state
VescInit ==
    /\ pc = "init"
    /\ pc' = "main"
    /\ \E subscribed \in
           {SubscribeNext(first, VescSubscriptions[2][1], VescSubscriptions[2][2]) :
            first \in {SubscribeNext([subs |-> subscribers,
                                      next_index |-> next_subscriber_index],
                                     VescSubscriptions[1][1], VescSubscriptions[1][2])}} :
          /\ subscribers' = subscribed.subs
          /\ next_subscriber_index' = subscribed.next_index
    /\ vesc' = [vesc EXCEPT !.rx = << >>, !.alive = FALSE,
                            !.values = VescStatic.values,
                            !.ring.size = RingSize,
                            !.ring.read_idx = 0, !.ring.write_idx = 0]
    /\ UNCHANGED <<event_queue_head, event_queue_tail, event_queue,
                   push_event, push_data, push_index,
                   push_ret, push_status, notify_index, pop_status, systick_ms, n_systick,
                   hvars, tvars, board_mode, board_submode, board_mode_idle_timer_id,
                   hysteresis, retained, delivered, fault_unanswered, mode_request,
                   n_mod, n_quiet, stage_ticks, latch>>

\* board_mode.c publishes a change of mode
ModeChanged(mode) ==
    /\ pc = "main"
    /\ n_mod' = n_mod + 1
    /\ \E s \in {event_queue_push(VescState, EVENT_BOARD_MODE_CHANGED,
                                  <<mode, BOARD_MODE_UNKNOWN, BOARD_SUBMODE_UNDEFINED,
                                    BOARD_SUBMODE_UNDEFINED>>)} : SetVescState(s)
    /\ UNCHANGED <<subscribers, next_subscriber_index, mvars, systick_ms, n_systick,
                   qhvars, thvars, retained, delivered, n_quiet, stage_ticks, latch>>

\* USART1_IRQHandler: the bytes of a frame are in the receive buffer when the
\* line goes idle and EVENT_SERIAL_DATA_RX is pushed; the frame before has
\* been read
SerialReceive(frame) ==
    /\ pc = "main"
    /\ vesc.rx = << >>
    /\ n_rx < MaxFrames
    /\ n_rx' = n_rx + 1
    /\ \E s \in {event_queue_push([VescState EXCEPT !.vesc.rx = @ \o frame],
                                  EVENT_SERIAL_DATA_RX, ZeroData)} : SetVescState(s)
    /\ UNCHANGED <<subscribers, next_subscriber_index, mvars, systick_ms, n_systick,
                   cur_seen, subs_log, n_wake, n_cb, n_sub, thvars, retained,
                   delivered, n_mod, n_quiet, stage_ticks, latch>>

\* the main loop delivers the event at the head: EVENT_SERIAL_DATA_RX to
\* vesc_serial_rx_event_handler, the others to modules that are not here
VescHandled(undefined) ==
    The({[s1 EXCEPT !.head = NextHead(s1.head),
                    !.fifo = IF s1.fifo = << >> THEN s1.fifo ELSE Tail(s1.fifo)] :
         s1 \in {IF event_queue[event_queue_head].event = EVENT_SERIAL_DATA_RX
                 THEN vesc_serial_rx_event_handler(VescEntered, undefined)
                 ELSE IF event_queue[event_queue_head].event = EVENT_BOARD_MODE_CHANGED
                 THEN vesc_serial_board_mode_change_event_handler(
                          VescEntered, event_queue[event_queue_head].data)
                 ELSE VescState}})

VescDeliver ==
    /\ pc = "main"
    /\ ~is_queue_empty
    /\ \E undefined \in UndefinedRpm :
         \E s2 \in {VescHandled(undefined)} : SetVescState(s2)
    /\ UNCHANGED <<subscribers, next_subscriber_index, mvars, systick_ms, n_systick,
                   qhvars, thvars, retained, delivered, n_mod, n_quiet, stage_ticks,
                   latch>>

\* the poll timer of vesc_serial.c expires
VescTx ==
    /\ pc = "main"
    /\ is_timer_active(timers, vesc.tx_timerid)
    /\ n_cb < MaxPolls
    /\ n_cb' = n_cb + 1
    /\ \E s \in {vesc_serial_tx_timer_callback(VescEntered)} : SetVescState(s)
    /\ UNCHANGED <<subscribers, next_subscriber_index, mvars, systick_ms, n_systick,
                   cur_seen, subs_log, n_wake, n_rx, n_sub, thvars, retained,
                   delivered, n_mod, n_quiet, stage_ticks, latch>>

\* status_leds_hw.c asks whether the line is busy and waits if it is
VescCheckBusy ==
    /\ pc = "main"
    /\ ~vesc.callback
    /\ \E s \in {vesc_serial_check_busy_and_set_callback(VescEntered)} : SetVescState(s)
    /\ UNCHANGED <<subscribers, next_subscriber_index, mvars, systick_ms, n_systick,
                   qhvars, thvars, retained, delivered, n_mod, n_quiet, stage_ticks,
                   latch>>

NextVesc ==
    \/ VescInit
    \/ \E mode \in {BOARD_MODE_IDLE, BOARD_MODE_OFF} :
          is_queue_empty /\ Budget(MaxModeChanges) /\ ModeChanged(mode)
    \/ \E frame \in Frames : is_queue_empty /\ SerialReceive(frame)
    \/ VescDeliver
    \/ VescTx
    \/ VescCheckBusy

SpecVesc == InitBoard /\ [][NextVesc]_vars

\* the bytes hold, somewhere, a whole frame whose END byte and CRC are right
HasGoodFrame(rx) ==
    \E i \in 1..Len(rx) :
        /\ rx[i] = START_BYTE
        /\ i + 1 <= Len(rx)
        /\ rx[i + 1] <= MAX_PACKET_LENGTH
        /\ i + rx[i + 1] + 4 <= Len(rx)
        /\ rx[i + rx[i + 1] + 4] = END_BYTE
        /\ crc16_ccitt(SubSeq(rx, i + 2, i + rx[i + 1] + 1)) =
              rx[i + rx[i + 1] + 2] * 256 + rx[i + rx[i + 1] + 3]

\* ---- the poll timer and the communication timeout ----

\* the timer callbacks of the other modules: animations.c, board_mode.c,
\* button_driver.c, button_events.c, buzzer.c, footpads.c, headlights.c
OtherCallbacks ==
    <<"animation_tick", "board_mode_idle_timer_handler", "button_driver_debounce",
      "button_events_hold", "button_events_repeat", "buzzer_tick",
      "footpads_sample", "headlights_animation">>

\* set_timer called for the first n of them
RECURSIVE SetOtherTimers(_, _)
SetOtherTimers(r, n) ==
    IF n = 0 THEN r
    ELSE The({set_timer(r1.timers, r1.next_timer_id, 1, OtherCallbacks[n], TRUE) :
              r1 \in {SetOtherTimers(r, n - 1)}})

\* the other modules arm their timers: as many as the pool has room for
OtherModulesSetTimers ==
    /\ pc = "main"
    /\ \A i \in TimerSlots : timers[i].callback \in {NULL, TxCallback}
    /\ \E r \in {SetOtherTimers([timers |-> timers, next_timer_id |-> next_timer_id],
                                 Len(OtherCallbacks))} :
          /\ timers' = r.timers
          /\ next_timer_id' = r.next_timer_id
    /\ UNCHANGED <<qvars, mvars, systick_ms, n_systick, hvars, tick_i, cur_cb, handle,
                   armed, age, last_call, cb_did, last_cb, n_call, n_tick, n_used,
                   n_plain, board_mode, board_submode, board_mode_idle_timer_id,
                   hysteresis, retained, delivered, fault_unanswered, mode_request,
                   n_mod, n_quiet, stage_ticks, xvars>>

\* the poll timer expires; the requests sent since the last frame with a
\* right CRC was handled are counted
PollTick ==
    /\ pc = "main"
    /\ is_timer_active(timers, vesc.tx_timerid)
    /\ n_cb < MaxPollTicks
    /\ n_cb' = n_cb + 1
    /\ \E s \in {vesc_serial_tx_timer_callback(VescEntered)} :
          SetVescState([s EXCEPT !.vesc.unanswered = @ + 1])
    /\ UNCHANGED <<subscribers, next_subscriber_index, mvars, systick_ms, n_systick,
                   cur_seen, subs_log, n_wake, n_rx, n_sub, thvars, retained,
                   delivered, n_mod, n_quiet, stage_ticks, latch>>

\* the main loop delivers the event at the head; a frame with a right CRC
\* answers the requests sent so far
PollDeliver ==
    /\ pc = "main"
    /\ ~is_queue_empty
    /\ \E undefined \in UndefinedRpm :
         \E s2 \in {VescHandled(undefined)} :
            SetVescState(IF event_queue[event_queue_head].event = EVENT_SERIAL_DATA_RX
                            /\ HasGoodFrame(vesc.rx)
                         THEN [s2 EXCEPT !.vesc.unanswered = 0]
                         ELSE s2)
    /\ UNCHANGED <<subscribers, next_subscriber_index, mvars, systick_ms, n_systick,
                   qhvars, thvars, retained, delivered, n_mod, n_quiet, stage_ticks,
                   latch>>

\* a response, a frame with a wrong CRC and a frame with an unknown command
PollFrames ==
    {Frame(ValuesPayload(COMM_GET_VALUES_SETUP_SELECTIVE_MASK, 500, 3000, 800, 0)),
     FrameWith(<<COMM_GET_VALUES_SETUP_SELECTIVE>>,
               (crc16_ccitt(<<COMM_GET_VALUES_SETUP_SELECTIVE>>) + 1) % 65536, END_BYTE),
     Frame(<<0>>)}
PollModes ==
    {BOARD_MODE_OFF, BOARD_MODE_BOOTING, BOARD_MODE_IDLE, BOARD_MODE_RIDING,
     BOARD_MODE_CHARGING, BOARD_MODE_FAULT}

NextPoll ==
    \/ VescInit
    \/ \E mode \in {BOARD_MODE_IDLE, BOARD_MODE_OFF} :
          is_queue_empty /\ Budget(MaxModeChanges) /\ ModeChanged(mode)
    \/ \E frame \in PollFrames : is_queue_empty /\ SerialReceive(frame)
    \/ PollDeliver
    \/ PollTick

SpecPoll == InitBoard /\ [][NextPoll]_vars

\* changes of mode with a timer pool the other modules may have filled
NextModes ==
    \/ VescInit
    \/ OtherModulesSetTimers
    \/ \E mode \in PollModes : is_queue_empty /\ Budget(MaxPollModes) /\ ModeChanged(mode)
    \/ \E frame \in PollFrames : is_queue_empty /\ SerialReceive(frame)
    \/ VescDeliver
    \/ VescTx

SpecModes == InitBoard /\ [][NextModes]_vars

\* ---- a frame that the line delivers in two pieces ----

\* the pieces: a valid frame cut in two at any byte
SplitFrames == ValidFrames
Parts ==
    UNION {{SubSeq(frame, 1, k), SubSeq(frame, k + 1, Len(frame))} :
           <<frame, k>> \in {<<f, i>> \in SplitFrames \X (1..MAX_PACKET_LENGTH) :
                                 i < Len(f)}}

\* USART1_IRQHandler: the bytes received go into the receive buffer, behind
\* what the decoder has left there, and the idle line pushes
\* EVENT_SERIAL_DATA_RX; the event before has been handled
PartReceive(bytes) ==
    /\ pc = "main"
    /\ is_queue_empty
    /\ n_rx < MaxParts
    /\ n_rx' = n_rx + 1
    /\ \E s \in {event_queue_push([VescState EXCEPT !.vesc.rx = @ \o bytes,
                                                    !.vesc.parts = Append(@, bytes)],
                                  EVENT_SERIAL_DATA_RX, ZeroData)} : SetVescState(s)
    /\ UNCHANGED <<subscribers, next_subscriber_index, mvars, systick_ms, n_systick,
                   cur_seen, subs_log, n_wake, n_cb, n_sub, thvars, retained,
                   delivered, n_mod, n_quiet, stage_ticks, latch>>

NextSplit ==
    \/ VescInit
    \/ \E bytes \in Parts : PartReceive(bytes)
    \/ VescDeliver

SpecSplit == InitBoard /\ [][NextSplit]_vars

\* ---- ring_buffer.c: the receive buffer between the UART interrupt and ----
\* ---- the decoder                                                      ----

ring_buffer_next(buf, idx) == (idx + 1) % buf.size

ring_buffer_is_empty(buf) == buf.read_idx = buf.write_idx

\* a buffer that never reports itself full
ring_buffer_never_full(buf) == FALSE
ring_buffer_is_full(buf) == ring_buffer_next(buf, buf.write_idx) = buf.read_idx

\* ring_buffer_push: the buffer after the call, push_ret being its result
ring_buffer_push(buf, data) ==
    IF ~ring_buffer_is_full(buf)
    THEN [buf EXCEPT !.buffer[buf.write_idx] = data,
                     !.write_idx = ring_buffer_next(buf, buf.write_idx),
                     !.push_ret = TRUE,
                     !.pushed = Append(@, data)]
    ELSE [buf EXCEPT !.push_ret = FALSE]

\* what the main thread leaves alone while it is inside ring_buffer_pop
RingFrame ==
    UNCHANGED <<qvars, push_event, push_data, push_index, push_ret, push_status,
                notify_index, pop_status, systick_ms, n_systick,
                fifo, cur_seen, subs_log, written, n_wake, n_cb, n_sub, tvars,
                board_mode, board_submode, board_mode_idle_timer_id, hysteresis,
                retained, delivered, fault_unanswered, mode_request, n_mod, n_quiet,
                stage_ticks, latch>>

\* USART1_IRQHandler with RXNE set: the byte received is pushed, wherever the
\* main thread is; the bytes are numbered as they arrive
RingReceive ==
    /\ pc # "init"
    /\ n_rx < MaxRingPushes
    /\ n_rx' = n_rx + 1
    /\ vesc' = [vesc EXCEPT !.ring = [ring_buffer_push(@, n_rx + 1)
                                         EXCEPT !.raced = @ \/ pc # "main"]]
    /\ pc' = pc
    /\ RingFrame

\* ring_buffer_pop, called by the decoder: the test for an empty buffer
RingPopEnter ==
    /\ pc = "main"
    /\ IF ~ring_buffer_is_empty(vesc.ring)
       THEN pc' = "pop_read" /\ vesc' = vesc
       ELSE pc' = "main" /\ vesc' = [vesc EXCEPT !.ring.pop_ret = FALSE]
    /\ n_rx' = n_rx
    /\ RingFrame

\* *data = buf->buffer[buf->read_idx]
RingPopRead ==
    /\ pc = "pop_read"
    /\ pc' = "pop_advance"
    /\ vesc' = [vesc EXCEPT !.ring.data = vesc.ring.buffer[vesc.ring.read_idx]]
    /\ n_rx' = n_rx
    /\ RingFrame

\* buf->read_idx = ring_buffer_next(buf, buf->read_idx), and the return
RingPopAdvance ==
    /\ pc = "pop_advance"
    /\ pc' = "main"
    /\ vesc' = [vesc EXCEPT !.ring.read_idx = ring_buffer_next(vesc.ring, @),
                            !.ring.pop_ret = TRUE,
                            !.ring.popped = Append(@, vesc.ring.data)]
    /\ n_rx' = n_rx
    /\ RingFrame

NextRing ==
    \/ VescInit
    \/ RingReceive
    \/ RingPopEnter
    \/ RingPopRead
    \/ RingPopAdvance

SpecRing == InitBoard /\ [][NextRing]_vars

\* ---- the timer pool after many allocations ----

\* n times set_timer for the callback and cancel_timer for the id returned
RECURSIVE SetCancelRun(_, _, _)
SetCancelRun(r, callback, n) ==
    IF n = 0
    THEN r
    ELSE IF n = 1
    THEN The({[timers |-> cancel_timer(s.timers, s.ret).timers,
               next_timer_id |-> s.next_timer_id, ret |-> s.ret] :
              s \in {set_timer(r.timers, r.next_timer_id, MaxTimeout, callback, FALSE)}})
    ELSE The({SetCancelRun(h, callback, n - (n \div 2)) :
              h \in {SetCancelRun(r, callback, n \div 2)}})

\* a client whose timer is not set sets and cancels it MaxIdRun times
\* between two tick events, the pool having a free slot, before the other
\* calls from the main loop
IdRun ==
    /\ pc = "main"
    /\ n_quiet = 0
    /\ n_call = 0
    /\ n_quiet' = 1
    /\ armed[TimerCallbacks[1]] = NotArmed
    /\ find_available_timer(timers) # NoSlot
    /\ \E r \in {SetCancelRun([timers |-> timers, next_timer_id |-> next_timer_id,
                               ret |-> INVALID_TIMER_ID], TimerCallbacks[1], MaxIdRun)} :
          /\ timers' = r.timers
          /\ next_timer_id' = r.next_timer_id
          /\ handle' = [handle EXCEPT ![TimerCallbacks[1]] = r.ret]
          /\ last_call' = [n |-> 1 - last_call.n, op |-> "cancel", callback |-> NULL,
                           timeout |-> 0, repeat |-> FALSE, id |-> r.ret,
                           ret |-> 0, status |-> LCM_SUCCESS, fault |-> FALSE,
                           live |-> TRUE]
    /\ n_used' = IF n_used = 0 THEN 1 ELSE n_used
    /\ last_cb' = NoCallbackEffect
    /\ UNCHANGED <<qvars, mvars, systick_ms, n_systick, hvars, tick_i, cur_cb,
                   armed, age, cb_did, n_call, n_tick, n_plain,
                   board_mode, board_submode, board_mode_idle_timer_id, hysteresis,
                   retained, delivered, fault_unanswered, mode_request, n_mod,
                   stage_ticks, xvars>>

NextWrap ==
    \/ TimerStart
    \/ \E callback \in TimerCallbackSet, repeat \in BOOLEAN :
          SetTimerMain(MaxTimeout, callback, repeat)
    \/ \E timer_id \in CancelIds : CancelTimerMain(timer_id)
    \/ IdRun
    \/ TimerTick
    \/ CallbackDone

SpecWrap == InitTimer /\ [][NextWrap]_vars

\* ---- timers set from inside the callback of another timer ----

\* the running callback sets the timer of another client
CallbackSetOther(timeout, callback, repeat) ==
    /\ pc = "timer_callback"
    /\ IsRich(cur_cb)
    /\ callback # cur_cb
    /\ cb_did.ops < MaxCallbackOps
    /\ AllowedSet(timeout, callback, repeat)
    /\ DoSetTimer(timeout, callback, repeat)
    /\ cb_did' = [cb_did EXCEPT !.ops = @ + 1]
    /\ last_cb' = NoCallbackEffect
    /\ UNCHANGED <<mvars, systick_ms, n_systick, bvars, cur_seen, subs_log, n_wake, n_rx, n_cb, n_sub,
                   tick_i, cur_cb, n_tick>>

NextCross ==
    \/ TimerStart
    \/ \E timeout \in 1 .. MaxTimeout, callback \in TimerCallbackSet, repeat \in BOOLEAN :
          SetTimerMain(timeout, callback, repeat)
    \/ \E timer_id \in CancelIds : CancelTimerMain(timer_id)
    \/ TimerTick
    \/ \E timeout \in 1 .. MaxTimeout, repeat \in BOOLEAN : CallbackSetTimer(timeout, repeat)
    \/ \E timeout \in 1 .. MaxTimeout, n \in 1 .. RichCallbacks, repeat \in BOOLEAN :
          CallbackSetOther(timeout, TimerCallbacks[n], repeat)
    \/ CallbackDone

SpecCross == InitTimer /\ [][NextCross]_vars

\* ---- the decoder while the SysTick interrupt fills the queue ----

\* the line delivers valid frames and the SysTick interrupt does not wait for
\* the main loop
NextFlood ==
    \/ VescInit
    \/ SysTick_Handler
    \/ \E frame \in ValidFrames : SerialReceive(frame)
    \/ VescDeliver

SpecFlood == InitBoard /\ [][NextFlood]_vars

(***************************************************************************)
(* Properties of the board                                                 *)
(***************************************************************************)
\* C9: once an EVENT_EMERGENCY_FAULT has been handled, whatever the mode
\* and submode were, the board is in FAULT/UNDEFINED and no idle timer is
\* active.
C9_FaultHandled ==
    delivered.event = EVENT_EMERGENCY_FAULT =>
        /\ board_mode = BOARD_MODE_FAULT
        /\ board_submode = BOARD_SUBMODE_UNDEFINED
        /\ \A i \in TimerSlots : timers[i].callback # IdleCallback
        /\ ~is_timer_active(timers, board_mode_idle_timer_id)

\* the fault was handled in IDLE while the idle timer was running
C9_Witness ==
    /\ delivered.event = EVENT_EMERGENCY_FAULT
    /\ delivered.mode = BOARD_MODE_IDLE
    /\ delivered.idle_timer

\* C10: every fault() call is followed by the board mode FAULT/UNDEFINED
\* when the main loop drains the queue: once the queue is empty again, no
\* call is left that the board has not answered.
C10_FaultReachesBoard ==
    (pc = "main" /\ is_queue_empty) => ~fault_unanswered

\* the submodes board_mode.h lists for each mode
IdleSubmodes ==
    {BOARD_SUBMODE_IDLE_ACTIVE, BOARD_SUBMODE_IDLE_DEFAULT, BOARD_SUBMODE_IDLE_DOZING,
     BOARD_SUBMODE_IDLE_SHUTTING_DOWN, BOARD_SUBMODE_IDLE_CONFIG}
RidingSubmodes ==
    {BOARD_SUBMODE_RIDING_STOPPED, BOARD_SUBMODE_RIDING_SLOW, BOARD_SUBMODE_RIDING_NORMAL,
     BOARD_SUBMODE_RIDING_WARNING, BOARD_SUBMODE_RIDING_DANGER}
ValidPairing(mode, submode) ==
    \/ mode \in {BOARD_MODE_OFF, BOARD_MODE_BOOTING, BOARD_MODE_FAULT}
          /\ submode = BOARD_SUBMODE_UNDEFINED
    \/ mode = BOARD_MODE_IDLE /\ submode \in IdleSubmodes
    \/ mode = BOARD_MODE_RIDING /\ submode \in RidingSubmodes

\* the emergency faults of the given kind that are queued
QueuedFaults(kind) ==
    {k \in 1..Len(fifo) : /\ fifo[k].event = EVENT_EMERGENCY_FAULT
                          /\ fifo[k].data = Scalar(kind)}

\* C11: after board_mode_init the pair (mode, submode) is a valid pairing in
\* every reachable state, and set_board_mode has raised no
\* EMERGENCY_FAULT_INVALID_STATE.
C11_ValidPairing ==
    pc = "main" =>
        /\ ValidPairing(board_mode, board_submode)
        /\ QueuedFaults(EMERGENCY_FAULT_INVALID_STATE) = {}

\* a footpad event was handled in IDLE and took the board to RIDING/DANGER
C11_Witness ==
    /\ pc = "main"
    /\ delivered.event = EVENT_FOOTPAD_CHANGED
    /\ delivered.mode = BOARD_MODE_IDLE
    /\ board_mode = BOARD_MODE_RIDING
    /\ board_submode = BOARD_SUBMODE_RIDING_DANGER

\* the events one pass of the main loop has pushed
Pushed == SubSeq(fifo', Len(fifo), Len(fifo'))
ModeChanges(events) ==
    {k \in 1..Len(events) : events[k].event = EVENT_BOARD_MODE_CHANGED}

\* C12: a handler calls set_board_mode at most once; a call for a pair that
\* differs from the current one pushes one EVENT_BOARD_MODE_CHANGED carrying
\* the pair before the call as previous and the requested pair as new; a
\* call for the current pair, like no call, pushes none and leaves the idle
\* timer as it was.
C12_Step ==
    (pc = "main" /\ event_queue_head' # event_queue_head) =>
        /\ mode_request'.calls <= 1
        /\ mode_request'.calls = 0 => ModeChanges(Pushed) = {}
        /\ mode_request'.calls = 1 =>
              IF mode_request'.mode = board_mode /\ mode_request'.submode = board_submode
              THEN /\ ModeChanges(Pushed) = {}
                   /\ timers' = timers
                   /\ board_mode_idle_timer_id' = board_mode_idle_timer_id
                   /\ board_mode' = board_mode /\ board_submode' = board_submode
              ELSE /\ Cardinality(ModeChanges(Pushed)) = 1
                   /\ \A k \in ModeChanges(Pushed) :
                         Pushed[k].data = <<mode_request'.mode, board_mode,
                                            mode_request'.submode, board_submode>>
                   /\ board_mode' = mode_request'.mode
                   /\ board_submode' = mode_request'.submode
C12_ChangedOnly == [][C12_Step]_vars

\* EVENT_COMMAND_SHUTDOWN was handled in IDLE/SHUTTING_DOWN with the idle
\* timer running: a request for the current pair
C12_Witness ==
    /\ mode_request.calls = 1
    /\ delivered.event = EVENT_COMMAND_SHUTDOWN
    /\ delivered.mode = mode_request.mode
    /\ delivered.submode = mode_request.submode
    /\ delivered.idle_timer

\* the timeout set_board_mode gives each stage and the stage the idle timer
\* handler requests when it expires
IdleTimeout(submode) ==
    CASE submode = BOARD_SUBMODE_IDLE_ACTIVE -> IDLE_ACTIVE_TIMEOUT
      [] submode = BOARD_SUBMODE_IDLE_DEFAULT -> IDLE_DEFAULT_TIMEOUT
      [] submode = BOARD_SUBMODE_IDLE_DOZING -> IDLE_DOZING_TIMEOUT
      [] submode = BOARD_SUBMODE_IDLE_SHUTTING_DOWN -> IDLE_SHUTTING_DOWN_TIMEOUT
NextStage(submode) ==
    CASE submode = BOARD_SUBMODE_IDLE_ACTIVE -> <<BOARD_MODE_IDLE, BOARD_SUBMODE_IDLE_DEFAULT>>
      [] submode = BOARD_SUBMODE_IDLE_DEFAULT -> <<BOARD_MODE_IDLE, BOARD_SUBMODE_IDLE_DOZING>>
      [] submode = BOARD_SUBMODE_IDLE_DOZING ->
             <<BOARD_MODE_IDLE, BOARD_SUBMODE_IDLE_SHUTTING_DOWN>>
      [] submode = BOARD_SUBMODE_IDLE_SHUTTING_DOWN ->
             <<BOARD_MODE_OFF, BOARD_SUBMODE_UNDEFINED>>
IdleSlots == {i \in TimerSlots : timers[i].callback = IdleCallback}

\* the board in each stage: one idle timer in a timed stage, whose remaining
\* time is the timeout less the ticks handled, and no timer elsewhere
C13_StageState ==
    pc = "main" =>
        /\ Cardinality(IdleSlots) <= 1
        /\ TimedStage(board_mode, board_submode) =>
              /\ Cardinality(IdleSlots) = 1
              /\ stage_ticks < IdleTimeout(board_submode)
              /\ \A i \in IdleSlots :
                    timers[i].counter = IdleTimeout(board_submode) - stage_ticks
        /\ board_mode \in {BOARD_MODE_OFF, BOARD_MODE_BOOTING} =>
              timer_active_count(timers) = 0

\* a change of the pair: BOOTING on COMMAND_BOOT, IDLE/ACTIVE on the alive
\* message, and the next stage on the tick that completes the timeout
C13_StageStep ==
    (pc = "main" /\ <<board_mode, board_submode>>' # <<board_mode, board_submode>>) =>
        CASE board_mode = BOARD_MODE_OFF ->
                 /\ event_queue[event_queue_head].event = EVENT_COMMAND_BOOT
                 /\ <<board_mode, board_submode>>' =
                        <<BOARD_MODE_BOOTING, BOARD_SUBMODE_UNDEFINED>>
          [] board_mode = BOARD_MODE_BOOTING ->
                 /\ event_queue[event_queue_head].event = EVENT_VESC_ALIVE
                 /\ <<board_mode, board_submode>>' =
                        <<BOARD_MODE_IDLE, BOARD_SUBMODE_IDLE_ACTIVE>>
          [] TimedStage(board_mode, board_submode) ->
                 /\ event_queue[event_queue_head].event = EVENT_SYS_TICK
                 /\ stage_ticks + 1 = IdleTimeout(board_submode)
                 /\ <<board_mode, board_submode>>' = NextStage(board_submode)
          [] OTHER -> FALSE

Latched(state, set_threshold, reset_threshold, value) ==
    \/ value >= set_threshold
    \/ state = STATE_SET /\ value >= reset_threshold
RuleSubmode ==
    IF Latched(hysteresis.danger, DUTY_CYCLE_DANGER_THRESHOLD, DUTY_CYCLE_DANGER_RESET,
               retained.duty_cycle)
    THEN BOARD_SUBMODE_RIDING_DANGER
    ELSE IF Latched(hysteresis.warning, DUTY_CYCLE_WARNING_THRESHOLD,
                    DUTY_CYCLE_WARNING_RESET, retained.duty_cycle)
    THEN BOARD_SUBMODE_RIDING_WARNING
    ELSE IF Latched(hysteresis.slow_rpm, SLOW_RPM_THRESHOLD, SLOW_RPM_RESET,
                    Abs(retained.rpm))
    THEN BOARD_SUBMODE_RIDING_NORMAL
    ELSE IF Latched(hysteresis.stopped_rpm, STOPPED_RPM_THRESHOLD, STOPPED_RPM_RESET,
                    Abs(retained.rpm))
    THEN BOARD_SUBMODE_RIDING_SLOW
    ELSE BOARD_SUBMODE_RIDING_STOPPED

\* the event the main loop handles in this step
Handling(event) ==
    /\ pc = "main"
    /\ event_queue_head' # event_queue_head
    /\ event_queue[event_queue_head].event = event
HandledData == event_queue[event_queue_head].data[1]
RollUpright == retained.imu_roll <= 45 /\ retained.imu_roll >= -45

\* C14: in IDLE outside CONFIG, with the roll within 45 degrees, a
\* FOOTPAD_CHANGED with a footpad pressed or an RPM_CHANGED with nonzero RPM
\* moves the board to RIDING, with the submode of the threshold rules
\* (STOPPED when RPM and duty cycle are 0), and no idle timer is left active.
C14_Step ==
    ( /\ \/ Handling(EVENT_FOOTPAD_CHANGED) /\ HandledData # NONE_FOOTPAD
         \/ Handling(EVENT_RPM_CHANGED) /\ HandledData # 0
      /\ board_mode = BOARD_MODE_IDLE
      /\ board_submode # BOARD_SUBMODE_IDLE_CONFIG
      /\ RollUpright ) =>
        /\ board_mode' = BOARD_MODE_RIDING
        /\ board_submode' = RuleSubmode
        /\ (retained.rpm = 0 /\ retained.duty_cycle = 0) =>
               board_submode' = BOARD_SUBMODE_RIDING_STOPPED
        /\ \A i \in TimerSlots : timers'[i].callback # IdleCallback
        /\ ~is_timer_active(timers', board_mode_idle_timer_id')
C14_StepOn == [][C14_Step]_vars

\* the rider stepped on the board in IDLE, the idle timer running, with RPM
\* and duty cycle 0
C14_Witness ==
    /\ delivered.event = EVENT_FOOTPAD_CHANGED
    /\ delivered.data[1] # NONE_FOOTPAD
    /\ delivered.mode = BOARD_MODE_IDLE
    /\ delivered.idle_timer
    /\ board_mode = BOARD_MODE_RIDING
    /\ board_submode = BOARD_SUBMODE_RIDING_STOPPED
    /\ retained.rpm = 0 /\ retained.duty_cycle = 0

\* the board is at rest: the RPM is zero and no footpad is pressed, the
\* changed value as the event carries it and the other as it is retained
AtRest ==
    \/ /\ Handling(EVENT_RPM_CHANGED)
       /\ HandledData = 0
       /\ retained.footpads_state = NONE_FOOTPAD
    \/ /\ Handling(EVENT_FOOTPAD_CHANGED)
       /\ HandledData = NONE_FOOTPAD
       /\ retained.rpm = 0

\* C15: while RIDING, an RPM_CHANGED or FOOTPAD_CHANGED moves the board to
\* IDLE/ACTIVE and arms the idle timer with IDLE_ACTIVE_TIMEOUT if and only
\* if the RPM is zero and no footpad is pressed; otherwise the board stays
\* in RIDING.
C15_Step ==
    ( /\ Handling(EVENT_RPM_CHANGED) \/ Handling(EVENT_FOOTPAD_CHANGED)
      /\ board_mode = BOARD_MODE_RIDING ) =>
        IF AtRest
        THEN /\ board_mode' = BOARD_MODE_IDLE
             /\ board_submode' = BOARD_SUBMODE_IDLE_ACTIVE
             /\ is_timer_active(timers', board_mode_idle_timer_id')
             /\ \E i \in TimerSlots :
                   /\ timers'[i].callback = IdleCallback
                   /\ timers'[i].id = board_mode_idle_timer_id'
                   /\ timers'[i].counter = IDLE_ACTIVE_TIMEOUT
        ELSE board_mode' = BOARD_MODE_RIDING
Recomputing ==
    /\ RollUpright
    /\ \/ /\ Handling(EVENT_DUTY_CYCLE_CHANGED)
          /\ board_mode = BOARD_MODE_RIDING
       \/ /\ Handling(EVENT_RPM_CHANGED)
          /\ \/ board_mode = BOARD_MODE_IDLE /\ HandledData # 0
             \/ board_mode = BOARD_MODE_RIDING /\ ~AtRest
       \/ /\ Handling(EVENT_FOOTPAD_CHANGED)
          /\ board_mode = BOARD_MODE_IDLE
          /\ board_submode # BOARD_SUBMODE_IDLE_CONFIG
          /\ HandledData # NONE_FOOTPAD

\* C16: each recomputation of the riding submode selects the condition of
\* highest priority whose latch reports SET, in the order DANGER > WARNING >
\* NORMAL > SLOW > STOPPED; with the duty cycle at or above the danger
\* threshold the submode is DANGER whatever the RPM.
C16_Step ==
    Recomputing =>
        /\ board_mode' = BOARD_MODE_RIDING
        /\ board_submode' =
              IF hysteresis'.danger = STATE_SET THEN BOARD_SUBMODE_RIDING_DANGER
              ELSE IF hysteresis'.warning = STATE_SET THEN BOARD_SUBMODE_RIDING_WARNING
              ELSE IF hysteresis'.slow_rpm = STATE_SET THEN BOARD_SUBMODE_RIDING_NORMAL
              ELSE IF hysteresis'.stopped_rpm = STATE_SET THEN BOARD_SUBMODE_RIDING_SLOW
              ELSE BOARD_SUBMODE_RIDING_STOPPED
        /\ retained.duty_cycle >= DUTY_CYCLE_DANGER_THRESHOLD =>
              /\ hysteresis'.danger = STATE_SET
              /\ board_submode' = BOARD_SUBMODE_RIDING_DANGER
C16_Priority == [][C16_Step]_vars

\* riding at an RPM above the slow threshold, the duty cycle rose above the
\* danger threshold: RIDING/NORMAL became RIDING/DANGER
C16_Witness ==
    /\ delivered.event = EVENT_DUTY_CYCLE_CHANGED
    /\ delivered.mode = BOARD_MODE_RIDING
    /\ delivered.submode = BOARD_SUBMODE_RIDING_NORMAL
    /\ board_submode = BOARD_SUBMODE_RIDING_DANGER
    /\ retained.rpm >= SLOW_RPM_THRESHOLD
    /\ retained.duty_cycle >= DUTY_CYCLE_DANGER_THRESHOLD

\* C17: whatever the mode and submode are, RIDING, OFF and FAULT included,
\* handling EVENT_COMMAND_SHUTDOWN leaves the board in IDLE/SHUTTING_DOWN
\* with the idle timer active.
C17_Step ==
    Handling(EVENT_COMMAND_SHUTDOWN) =>
        /\ board_mode' = BOARD_MODE_IDLE
        /\ board_submode' = BOARD_SUBMODE_IDLE_SHUTTING_DOWN
        /\ is_timer_active(timers', board_mode_idle_timer_id')
        /\ \E i \in TimerSlots :
              /\ timers'[i].callback = IdleCallback
              /\ timers'[i].id = board_mode_idle_timer_id'
              /\ timers'[i].counter \in 1..IDLE_SHUTTING_DOWN_TIMEOUT
Reported(i) == IF i = 0 THEN STATE_RESET ELSE latch.trace[i].state
Samples == 1..Len(latch.trace)
SamplesBetween(i, j) == {latch.trace[k].value : k \in (i + 1)..j}

\* C18: a latch initialised with reset threshold R <= set threshold S reports
\* SET for a sample >= S and for every later sample while the samples stay
\* >= R; it reports RESET for a sample < R and for every later sample while the
\* samples stay < S; a sample in [R, S) is reported as the sample before it
\* was (RESET for the first sample).
C18_NoFlicker ==
    (latch.status = LCM_SUCCESS /\ latch.reset_threshold <= latch.set_threshold) =>
        /\ \A i \in Samples : \A j \in i..Len(latch.trace) :
              /\ (latch.trace[i].value >= latch.set_threshold
                    /\ \A v \in SamplesBetween(i, j) : v >= latch.reset_threshold)
                 => Reported(j) = STATE_SET
              /\ (latch.trace[i].value < latch.reset_threshold
                    /\ \A v \in SamplesBetween(i, j) : v < latch.set_threshold)
                 => Reported(j) = STATE_RESET
        /\ \A i \in Samples :
              (latch.trace[i].value >= latch.reset_threshold
                 /\ latch.trace[i].value < latch.set_threshold)
              => Reported(i) = Reported(i - 1)

\* the sequence S-1, S, S-1, R+1, R-1 reported RESET, SET, SET, SET, RESET
C18_Witness ==
    /\ latch.status = LCM_SUCCESS
    /\ latch.reset_threshold < latch.set_threshold
    /\ Len(latch.trace) = 5
    /\ [i \in 1..5 |-> latch.trace[i].value]
          = <<latch.set_threshold - 1, latch.set_threshold, latch.set_threshold - 1,
              latch.reset_threshold + 1, latch.reset_threshold - 1>>
    /\ [i \in 1..5 |-> latch.trace[i].state]
          = <<STATE_RESET, STATE_SET, STATE_SET, STATE_SET, STATE_RESET>>

\* the events the step has pushed: what the queue holds behind the events
\* that were waiting, the delivered one left out
Published == SubSeq(fifo', Len(fifo), Len(fifo'))
TelemetryChanged ==
    {EVENT_DUTY_CYCLE_CHANGED, EVENT_RPM_CHANGED, EVENT_BATTERY_LEVEL_CHANGED}

\* C19: handling a frame with valid START, LEN and END bytes whose CRC does
\* not match its payload publishes no event and leaves the retained values,
\* the alive flag and the count of outstanding requests as they were.
C19_Step ==
    (Handling(EVENT_SERIAL_DATA_RX) /\ vesc.rx \in BadCrcFrames) =>
        /\ Published = << >>
        /\ vesc'.values = vesc.values
        /\ vesc'.alive = vesc.alive
        /\ vesc'.outstanding = vesc.outstanding
C19_BadCrcDiscarded == [][C19_Step]_vars

\* the fault a frame that fails the checks of its command is answered with
FaultOf(frame) ==
    IF frame[2] # COMM_GET_VALUES_SETUP_SELECTIVE_RESPONSE_LENGTH
    THEN EMERGENCY_FAULT_INVALID_LENGTH
    ELSE EMERGENCY_FAULT_OUT_OF_BOUNDS

\* C20: handling a telemetry frame with a good CRC that has the wrong length,
\* the wrong mask, or a duty cycle, an RPM or a battery level out of range
\* calls fault() once, with the kind of the failure, publishes no
\* telemetry-changed event and leaves every retained value as it was; the
\* fault event is the last one queued unless the queue is full.
C20_Step ==
    (Handling(EVENT_SERIAL_DATA_RX) /\ vesc.rx \in InvalidFrames) =>
        /\ vesc'.faults = <<FaultOf(vesc.rx)>>
        /\ \A i \in 1..Len(Published) : Published[i].event \notin TelemetryChanged
        /\ vesc'.values = vesc.values
        /\ Len(fifo') < event_queue_get_max_items =>
              /\ fifo' # << >>
              /\ fifo'[Len(fifo')] = [event |-> EVENT_EMERGENCY_FAULT,
                                      data |-> Scalar(FaultOf(vesc.rx))]
C20_InvalidFrame == [][C20_Step]_vars

\* a frame out of bounds was answered with a fault while values of an
\* earlier frame were retained
C20_Witness ==
    /\ vesc.faults = <<EMERGENCY_FAULT_OUT_OF_BOUNDS>>
    /\ vesc.alive
    /\ vesc.values.duty_cycle # 0
    /\ vesc.rx = << >>

\* the values a telemetry frame carries, as the decoder reads them
DecodedOf(frame) ==
    The({[duty_cycle |-> buffer_get_int16(payload, 6),
          rpm |-> buffer_get_int32(payload, 8),
          battery_level |-> buffer_get_int16(payload, 14)] :
         payload \in {SubSeq(frame, 3, 2 + frame[2])}})
ChangedEventOf ==
    [duty_cycle |-> EVENT_DUTY_CYCLE_CHANGED, rpm |-> EVENT_RPM_CHANGED,
     battery_level |-> EVENT_BATTERY_LEVEL_CHANGED]

\* C21: handling a telemetry frame that passes every check publishes, for
\* each of duty cycle, RPM and battery level, the changed-event of the field
\* (once, carrying the decoded value) if and only if the decoded value
\* differs from the retained one, and retains the decoded value; a frame
\* whose values are all retained already publishes no telemetry-changed event.
C21_Step ==
    (Handling(EVENT_SERIAL_DATA_RX) /\ vesc.rx \in ValidFrames) =>
        \E decoded \in {DecodedOf(vesc.rx)} :
            /\ \A field \in DOMAIN ChangedEventOf :
                  /\ (decoded[field] # vesc.values[field]) <=>
                        (\E i \in 1..Len(Published) :
                            Published[i].event = ChangedEventOf[field])
                  /\ \A i \in 1..Len(Published) :
                        Published[i].event = ChangedEventOf[field] =>
                            /\ Published[i].data = Scalar(decoded[field])
                            /\ \A j \in 1..Len(Published) :
                                  Published[j].event = ChangedEventOf[field] => j = i
                  /\ vesc'.values[field] = decoded[field]
            /\ (\A field \in DOMAIN ChangedEventOf :
                    decoded[field] = vesc.values[field]) =>
                  \A i \in 1..Len(Published) : Published[i].event \notin TelemetryChanged
Added ==
    IF event_queue_head' # event_queue_head
    THEN SubSeq(fifo', Len(fifo), Len(fifo'))
    ELSE SubSeq(fifo', Len(fifo) + 1, Len(fifo'))
\* the frames of the line that hold one
GoodFrames == {frame \in Frames : HasGoodFrame(frame)}
AlivePushed == {i \in 1..Len(Added) : Added[i].event = EVENT_VESC_ALIVE}

\* C22: a step publishes EVENT_VESC_ALIVE, once, exactly when it handles
\* received bytes that hold a frame with a right CRC (whatever its command
\* id) while the alive flag is false; the flag is then set, so that further
\* frames publish no EVENT_VESC_ALIVE until the flag has been cleared.
C22_Step ==
    /\ (AlivePushed # {}) <=>
          (Handling(EVENT_SERIAL_DATA_RX) /\ vesc.rx \in GoodFrames /\ ~vesc.alive)
    /\ Cardinality(AlivePushed) <= 1
    /\ (Handling(EVENT_SERIAL_DATA_RX) /\ vesc.rx \in GoodFrames) => vesc'.alive
    /\ (vesc.alive /\ ~vesc'.alive) =>
          \/ Handling(EVENT_BOARD_MODE_CHANGED)
          \/ EMERGENCY_FAULT_VESC_COMM_TIMEOUT \in {vesc'.faults[i] : i \in 1..Len(vesc'.faults)}
PollingModes == {BOARD_MODE_BOOTING, BOARD_MODE_IDLE, BOARD_MODE_RIDING}
PollTimerActive(ts) == \E i \in TimerSlots : ts[i].callback = TxCallback

\* C23 as stated: after an EVENT_BOARD_MODE_CHANGED has been handled the poll
\* timer is active if and only if the new mode is BOOTING, IDLE or RIDING,
\* and for any other new mode the alive flag is false.
C23_StatedStep ==
    Handling(EVENT_BOARD_MODE_CHANGED) =>
        /\ PollTimerActive(timers') <=> HandledData \in PollingModes
        /\ HandledData \notin PollingModes => ~vesc'.alive
C23_PollTimerFollowsMode == [][C23_StatedStep]_vars

\* C23, amended: after an EVENT_BOARD_MODE_CHANGED with new mode BOOTING, IDLE
\* or RIDING has been handled, the poll timer is active, repeating every
\* POLLING_INTERVAL_MS, if it was active before or the timer pool had a free
\* slot; otherwise set_timer has failed, EMERGENCY_FAULT_OVERFLOW has been
\* raised and the poll timer is inactive. For any other new mode the poll
\* timer is inactive and the alive flag is false.
C23_Step ==
    Handling(EVENT_BOARD_MODE_CHANGED) =>
        IF HandledData \in PollingModes
        THEN /\ PollTimerActive(timers') <=>
                    (PollTimerActive(timers) \/ find_available_timer(timers) # NoSlot)
             /\ PollTimerActive(timers') =>
                    /\ is_timer_active(timers', vesc'.tx_timerid)
                    /\ \A i \in TimerSlots : timers'[i].callback = TxCallback =>
                          /\ timers'[i].id = vesc'.tx_timerid
                          /\ timers'[i].repeat
                          /\ timers'[i].timeout = POLLING_INTERVAL_MS
                    /\ vesc'.faults = << >>
             /\ ~PollTimerActive(timers') =>
                    /\ vesc'.faults = <<EMERGENCY_FAULT_OVERFLOW>>
                    /\ vesc'.tx_timerid = INVALID_TIMER_ID
             /\ vesc'.alive = vesc.alive
        ELSE /\ ~PollTimerActive(timers')
             /\ ~is_timer_active(timers', vesc'.tx_timerid)
             /\ ~vesc'.alive
C23_PollTimer == [][C23_Step]_vars

\* the timer pool was full when a mode with polling was announced: the fault
\* was raised and there is no poll timer
C23_Witness ==
    /\ vesc.faults = <<EMERGENCY_FAULT_OVERFLOW>>
    /\ ~PollTimerActive(timers)
    /\ find_available_timer(timers) = NoSlot

\* C24: on a poll tick with the alive flag set, EMERGENCY_FAULT_VESC_COMM_TIMEOUT
\* is raised and the flag cleared exactly when MAX_OUTSTANDING_PACKETS or more
\* requests have been sent since the last response, which is the sixth
\* consecutive tick without a response; on a poll tick with the flag clear no
\* fault is raised.
C24_Step ==
    (n_cb' = n_cb + 1) =>
        IF vesc.alive
        THEN IF vesc.unanswered >= MAX_OUTSTANDING_PACKETS
             THEN /\ vesc'.faults = <<EMERGENCY_FAULT_VESC_COMM_TIMEOUT>>
                  /\ ~vesc'.alive
             ELSE /\ vesc'.faults = << >>
                  /\ vesc'.alive
        ELSE /\ vesc'.faults = << >>
             /\ ~vesc'.alive
C24_TimeoutOnSixthTick == [][C24_Step]_vars

\* ---- event_queue_push with a kind that is no event ----

\* the reserved kind and the first kind out of range
InvalidEvents == {EVENT_NULL, NUMBER_OF_EVENTS}

NextInvalidPush ==
    \/ SysTick_Handler
    \/ \E e \in QueueEvents : Subscribe(e)
    \/ MainPush(EVENT_COMMAND_BOOT, ZeroData)
    \/ \E event \in InvalidEvents : MainPush(event, ZeroData)
    \/ PushReserve
    \/ PushWriteEvent
    \/ PushWriteData
    \/ PopAndNotifyCall
    \/ DrainCheck
    \/ NotifyCall
    \/ NotifySkip
    \/ CallbackPush(EVENT_BUTTON_DOWN, Scalar(1))
    \/ CallbackReturn
    \/ NotifyDone

SpecInvalidPush == InitQueue /\ [][NextInvalidPush]_vars

\* C25: a call of event_queue_push with EVENT_NULL or a kind out of range
\* returns LCM_ERROR and leaves head, tail and slots, and so the depth, as
\* they were.
C25_Step ==
    (pc = "push_reserve" /\ pc' # pc /\ ~ValidEvent(push_event)) =>
        /\ push_status' = LCM_ERROR
        /\ event_queue_head' = event_queue_head
        /\ event_queue_tail' = event_queue_tail
        /\ event_queue' = event_queue
C25_InvalidPushRejected == [][C25_Step]_vars

\* ---- subscribe_event and the overflow pool ----

\* subscribe_event, with the status it returns kept in subs_log
SubscribeEvent(event, callback) ==
    /\ pc = "init"
    /\ n_sub < MaxSubscribeCalls
    /\ n_sub' = n_sub + 1
    /\ IF ValidEvent(event) /\ callback # NULL
       THEN IF subscribers[event].callback = NULL \/ PoolHasRoom(next_subscriber_index)
            THEN /\ subscribers' = SubscribeList(subscribers, next_subscriber_index,
                                                 event, callback)
                 /\ next_subscriber_index' =
                       IF subscribers[event].callback # NULL
                       THEN next_subscriber_index + 1 ELSE next_subscriber_index
                 /\ subs_log' = Append(subs_log, [event |-> event, callback |-> callback,
                                                  status |-> LCM_SUCCESS])
                 /\ UNCHANGED <<event_queue_head, event_queue_tail, event_queue,
                                fifo, written>>
            ELSE /\ fault(EMERGENCY_FAULT_OVERFLOW)
                 /\ subs_log' = Append(subs_log, [event |-> event, callback |-> callback,
                                                  status |-> LCM_ERROR])
       ELSE /\ subs_log' = Append(subs_log, [event |-> event, callback |-> callback,
                                             status |-> LCM_ERROR])
            /\ UNCHANGED <<qvars, fifo, written>>
    /\ UNCHANGED <<mvars, systick_ms, n_systick, cur_seen, n_wake, n_rx, n_cb, ovars>>

\* the modules subscribe before the main loop starts; the second kind joins
\* among the first calls and again once the pool is used up
NextSubscribe ==
    \E event \in QueueEvents \cup {EVENT_NULL} :
        /\ event # EVENT_SYS_TICK =>
              (n_sub < MaxMixedSubscribes \/ ~PoolHasRoom(next_subscriber_index))
        /\ SubscribeEvent(event, "callback")

SpecSubscribe == InitQueue /\ [][NextSubscribe]_vars

\* the entries of the overflow pool in use, and the list of a kind: the
\* indices from the kind's own slot along the next links
PoolUsed ==
    {i \in SubscriberSlots : i >= NUMBER_OF_EVENTS /\ subscribers[i].callback # NULL}
RECURSIVE ListFrom(_, _)
ListFrom(subs, index) ==
    IF subs[index].next = 0 THEN <<index>>
    ELSE <<index>> \o ListFrom(subs, subs[index].next)
LastCall == subs_log'[Len(subs_log')]

\* C26: a kind's first subscriber is written to the kind's own slot and takes
\* nothing from the pool; a further subscriber takes the next entry of the
\* pool of MAX_SUBSCRIPTIONS entries and is linked to the end of the kind's
\* list; when all entries of the pool are in use, subscribe_event for a kind
\* that has a subscriber returns LCM_ERROR, calls fault() (the event is in the
\* queue whenever the queue has room) and leaves every list as it was.
C26_Step ==
    (n_sub' = n_sub + 1 /\ ValidEvent(LastCall.event)) =>
        IF subscribers[LastCall.event].callback = NULL
        THEN /\ LastCall.status = LCM_SUCCESS
             /\ subscribers' = [subscribers EXCEPT ![LastCall.event] =
                                   [event |-> LastCall.event,
                                    callback |-> LastCall.callback, next |-> 0]]
             /\ PoolUsed' = PoolUsed
             /\ fifo' = fifo
        ELSE IF Cardinality(PoolUsed) < MAX_SUBSCRIPTIONS
        THEN /\ LastCall.status = LCM_SUCCESS
             /\ \E i \in SubscriberSlots \ PoolUsed :
                   /\ i >= NUMBER_OF_EVENTS
                   /\ PoolUsed' = PoolUsed \cup {i}
                   /\ subscribers'[i] = [event |-> LastCall.event,
                                         callback |-> LastCall.callback, next |-> 0]
                   /\ ListFrom(subscribers', LastCall.event) =
                         Append(ListFrom(subscribers, LastCall.event), i)
             /\ \A e \in QueueEvents \ {LastCall.event} :
                   ListFrom(subscribers', e) = ListFrom(subscribers, e)
             /\ fifo' = fifo
        ELSE /\ LastCall.status = LCM_ERROR
             /\ subscribers' = subscribers
             /\ next_subscriber_index' = next_subscriber_index
             /\ Len(fifo) < event_queue_get_max_items =>
                   fifo' = Append(fifo, [event |-> EVENT_EMERGENCY_FAULT,
                                         data |-> Scalar(EMERGENCY_FAULT_OVERFLOW)])
C26_OverflowPool == [][C26_Step]_vars

\* the pool is used up, a call for the kind with 33 subscribers was refused
\* with the fault queued, and the other kind still got its own slot
C26_Witness ==
    /\ Cardinality(PoolUsed) = MAX_SUBSCRIPTIONS
    /\ subs_log # << >>
    /\ subs_log[Len(subs_log)].status = LCM_ERROR
    /\ subs_log[Len(subs_log)].event = EVENT_SYS_TICK
    /\ Len(ListFrom(subscribers, EVENT_SYS_TICK)) = MAX_SUBSCRIPTIONS + 1
    /\ subscribers[EVENT_BUTTON_DOWN].callback # NULL
    /\ fifo = <<[event |-> EVENT_EMERGENCY_FAULT, data |-> Scalar(EMERGENCY_FAULT_OVERFLOW)]>>

\* ---- event_queue_pop_and_notify as one call ----

\* notify_subscribers: the callbacks called for an event, in the order of its list
Notified(subs, event) ==
    IF event = EVENT_NULL THEN << >>
    ELSE The({[k \in 1..Len(list) |->
                  [callback |-> subs[list[k]].callback, event |-> event]] :
              list \in {SelectSeq(ListFrom(subs, event),
                                  LAMBDA i : subs[i].callback # NULL)}})

\* event_queue_pop_and_notify: status starts as LCM_SUCCESS and the loop takes
\* every event there is; r holds head, status and the callbacks called
RECURSIVE event_queue_pop_and_notify(_)
event_queue_pop_and_notify(r) ==
    IF r.head = event_queue_tail THEN r
    ELSE event_queue_pop_and_notify(
             [head |-> NextHead(r.head), status |-> LCM_SUCCESS,
              called |-> r.called \o Notified(subscribers, event_queue[r.head].event)])

\* the main loop calls event_queue_pop_and_notify; what the call returns is
\* kept in pop_status and the callbacks it called in cur_seen
PopAndNotify ==
    /\ pc = "main"
    /\ n_cb < MaxPops
    /\ n_cb' = n_cb + 1
    /\ \E r \in {event_queue_pop_and_notify(
                     [head |-> event_queue_head, status |-> LCM_SUCCESS, called |-> << >>])} :
          /\ event_queue_head' = r.head
          /\ pop_status' = r.status
          /\ cur_seen' = r.called
    /\ fifo' = << >>
    /\ UNCHANGED <<event_queue_tail, event_queue, subscribers, next_subscriber_index,
                   pc, push_event, push_data, push_index, push_ret, push_status,
                   notify_index, systick_ms, n_systick, subs_log, written,
                   n_wake, n_rx, n_sub, ovars>>

NextPop ==
    \/ \E e \in QueueEvents : Subscribe(e)
    \/ MainPush(EVENT_COMMAND_BOOT, ZeroData)
    \/ PushReserve
    \/ PushWriteEvent
    \/ PushWriteData
    \/ SysTick_Handler
    \/ EXTI3_IRQHandler
    \/ PopAndNotify

SpecPop == InitQueue /\ [][NextPop]_vars

\* C27: event_queue_pop_and_notify called on an empty queue returns
\* LCM_QUEUE_EMPTY, calls no subscriber and leaves the depth at 0; called on a
\* queue that holds events it returns LCM_SUCCESS.
C27_Step ==
    (n_cb' = n_cb + 1) =>
        IF is_queue_empty
        THEN /\ pop_status' = LCM_QUEUE_EMPTY
             /\ cur_seen' = << >>
             /\ event_queue_head' = event_queue_tail'
        ELSE pop_status' = LCM_SUCCESS
C27_PopStatus == [][C27_Step]_vars

\* ---- the chain of EVENT_BOARD_MODE_CHANGED ----

\* the changes of mode that wait in the queue, oldest first
QueuedModeChanges == SelectSeq(fifo, LAMBDA e : e.event = EVENT_BOARD_MODE_CHANGED)
\* each carries as previous pair the new pair of the one before, and the
\* last carries the pair board_mode_get and board_submode_get return
ChainInQueue ==
    /\ \A k \in 1..(Len(QueuedModeChanges) - 1) :
          /\ QueuedModeChanges[k + 1].data[2] = QueuedModeChanges[k].data[1]
          /\ QueuedModeChanges[k + 1].data[4] = QueuedModeChanges[k].data[3]
    /\ QueuedModeChanges # << >> =>
          /\ QueuedModeChanges[Len(QueuedModeChanges)].data[1] = board_mode
          /\ QueuedModeChanges[Len(QueuedModeChanges)].data[3] = board_submode

\* C28: once board_mode_init has run, every step that changes (mode, submode) queues an
\* EVENT_BOARD_MODE_CHANGED with the old pair as previous and the new pair as
\* new pair, and the changes queued link up to the current pair; the events
\* delivered, which are the events queued, in order, then form an unbroken
\* chain that ends, when the queue has drained, in the current pair.
C28_Step ==
    (pc = "main" /\ (board_mode' # board_mode \/ board_submode' # board_submode)) =>
        /\ fifo' # << >>
        /\ fifo'[Len(fifo')] = [event |-> EVENT_BOARD_MODE_CHANGED,
                                data |-> <<board_mode', board_mode,
                                           board_submode', board_submode>>]
C28_UnbrokenChain == []ChainInQueue /\ [][C28_Step]_vars

\* ---- the idle timer and the CONFIG submode ----

InIdleConfig == board_mode = BOARD_MODE_IDLE /\ board_submode = BOARD_SUBMODE_IDLE_CONFIG

\* C29: set_timer not having failed, whenever the main loop is between two
\* events the idle timer is active exactly when the board is in IDLE with a
\* submode other than CONFIG; ticks handled in IDLE/CONFIG, one by one or in
\* a run, leave (mode, submode) as it is.
C29_TimerState ==
    (pc = "main" /\ QueuedFaults(EMERGENCY_FAULT_OVERFLOW) = {}) =>
        (IdleTimerActive(timers) <=>
            (board_mode = BOARD_MODE_IDLE /\ board_submode # BOARD_SUBMODE_IDLE_CONFIG))
C29_TickStep ==
    (InIdleConfig /\ (Handling(EVENT_SYS_TICK) \/ n_quiet' # n_quiet)) =>
        /\ board_mode' = board_mode
        /\ board_submode' = board_submode
        /\ ~IdleTimerActive(timers')
C29_IdleTimer == []C29_TimerState /\ [][C29_TickStep]_vars

\* a tick has been handled in IDLE/CONFIG, with no idle timer
C29_Witness ==
    /\ InIdleConfig
    /\ ~IdleTimerActive(timers)
    /\ delivered.event = EVENT_SYS_TICK
    /\ delivered.mode = BOARD_MODE_IDLE
    /\ delivered.submode = BOARD_SUBMODE_IDLE_CONFIG

\* C30: an EVENT_FOOTPAD_CHANGED or an EVENT_RPM_CHANGED handled while the
\* board is in IDLE/CONFIG leaves (mode, submode) as it is and queues no
\* EVENT_BOARD_MODE_CHANGED.
C30_Step ==
    (InIdleConfig /\ (Handling(EVENT_FOOTPAD_CHANGED) \/ Handling(EVENT_RPM_CHANGED))) =>
        /\ board_mode' = board_mode
        /\ board_submode' = board_submode
        /\ ModeChanges(Pushed) = {}
C30_ConfigIgnoresRiding == [][C30_Step]_vars


\* the idle timer counts the current timed stage: one slot holds it, with
\* the timeout of the stage less the ticks handled since the stage began
C31_Countdown ==
    (pc = "main" /\ TimedStage(board_mode, board_submode)) =>
        /\ Cardinality(IdleSlots) = 1
        /\ stage_ticks < IdleTimeout(board_submode)
        /\ \A i \in IdleSlots :
              /\ timers[i].id = board_mode_idle_timer_id
              /\ timers[i].counter = IdleTimeout(board_submode) - stage_ticks

\* EVENT_BUTTON_UP handled: in IDLE/SHUTTING_DOWN the pair becomes
\* IDLE/ACTIVE and the slot and id of the shutdown timer now count
\* IDLE_ACTIVE_TIMEOUT; in any other pair the pair stays
C31_Step ==
    Handling(EVENT_BUTTON_UP) =>
        IF board_mode = BOARD_MODE_IDLE /\ board_submode = BOARD_SUBMODE_IDLE_SHUTTING_DOWN
        THEN /\ board_mode' = BOARD_MODE_IDLE
             /\ board_submode' = BOARD_SUBMODE_IDLE_ACTIVE
             /\ board_mode_idle_timer_id' = board_mode_idle_timer_id
             /\ \A i \in IdleSlots :
                   /\ timers'[i].callback = IdleCallback
                   /\ timers'[i].id = timers[i].id
                   /\ timers'[i].counter = IDLE_ACTIVE_TIMEOUT
                   /\ ~timers'[i].repeat
             /\ \A i \in TimerSlots \ IdleSlots : timers'[i] = timers[i]
        ELSE <<board_mode, board_submode>>' = <<board_mode, board_submode>>

\* the board is switched OFF by the tick that completes the shutdown
\* timeout of the IDLE/SHUTTING_DOWN stage it is in, and by nothing else
C31_OffStep ==
    (pc = "main" /\ board_mode # BOARD_MODE_OFF /\ board_mode' = BOARD_MODE_OFF) =>
        /\ Handling(EVENT_SYS_TICK)
        /\ board_mode = BOARD_MODE_IDLE
        /\ board_submode = BOARD_SUBMODE_IDLE_SHUTTING_DOWN
        /\ stage_ticks + 1 = IDLE_SHUTTING_DOWN_TIMEOUT

\* C31: EVENT_BUTTON_UP handled in IDLE/SHUTTING_DOWN before the shutdown
\* timer expires returns the board to IDLE/ACTIVE, the same timer restarts at
\* IDLE_ACTIVE_TIMEOUT, and the board is not switched OFF when the shutdown
\* timeout would have elapsed; in any other pair EVENT_BUTTON_UP leaves the
\* pair unchanged.
C31_AbortShutdown ==
    []C31_Countdown /\ [][C31_Step]_vars /\ [][C31_OffStep]_vars

\* the shutdown was aborted: EVENT_BUTTON_UP was handled in
\* IDLE/SHUTTING_DOWN with the shutdown timer running, and the timer now
\* counts IDLE_ACTIVE_TIMEOUT
C31_Witness ==
    /\ delivered.event = EVENT_BUTTON_UP
    /\ delivered.mode = BOARD_MODE_IDLE
    /\ delivered.submode = BOARD_SUBMODE_IDLE_SHUTTING_DOWN
    /\ delivered.idle_timer
    /\ board_mode = BOARD_MODE_IDLE
    /\ board_submode = BOARD_SUBMODE_IDLE_ACTIVE
    /\ \E i \in IdleSlots : timers[i].counter = IDLE_ACTIVE_TIMEOUT


\* C32: while the retained roll is beyond 45 degrees either way, handling
\* EVENT_RPM_CHANGED, EVENT_DUTY_CYCLE_CHANGED or EVENT_FOOTPAD_CHANGED
\* selects no other riding submode, does not take the board from IDLE (or
\* any other mode) to RIDING, and leaves the four latches as they were.
C32_Step ==
    ( /\ \/ Handling(EVENT_RPM_CHANGED)
         \/ Handling(EVENT_DUTY_CYCLE_CHANGED)
         \/ Handling(EVENT_FOOTPAD_CHANGED)
      /\ ~RollUpright ) =>
        /\ hysteresis' = hysteresis
        /\ board_mode' = BOARD_MODE_RIDING =>
              /\ board_mode = BOARD_MODE_RIDING
              /\ board_submode' = board_submode
C32_FrozenOnItsSide == [][C32_Step]_vars

\* riding, with the board on its side, the duty cycle rose above the danger
\* threshold and the submode did not become DANGER
C32_Witness ==
    /\ delivered.event = EVENT_DUTY_CYCLE_CHANGED
    /\ delivered.data[1] >= DUTY_CYCLE_DANGER_THRESHOLD
    /\ delivered.mode = BOARD_MODE_RIDING
    /\ board_mode = BOARD_MODE_RIDING
    /\ board_submode = delivered.submode
    /\ board_submode # BOARD_SUBMODE_RIDING_DANGER
    /\ hysteresis.danger = STATE_RESET
    /\ ~RollUpright


\* the bytes are the beginning of a valid frame, and not all of it
IsFramePrefix(rx) ==
    /\ rx # << >>
    /\ \E frame \in SplitFrames : Len(rx) < Len(frame) /\ rx = SubSeq(frame, 1, Len(rx))

\* the decoder run on the beginning of a frame: no fault, nothing published,
\* nothing retained
C33_PrefixStep ==
    (Handling(EVENT_SERIAL_DATA_RX) /\ IsFramePrefix(vesc.rx)) =>
        /\ Published = << >>
        /\ vesc'.faults = << >>
        /\ vesc'.values = vesc.values

\* the line delivered a frame in two pieces and the decoder ran after each:
\* the values of the frame are retained
C33_FrameKept ==
    ( /\ pc = "main"
      /\ is_queue_empty
      /\ Len(vesc.parts) = 2
      /\ IsFramePrefix(vesc.parts[1])
      /\ (vesc.parts[1] \o vesc.parts[2]) \in SplitFrames ) =>
        \A field \in DOMAIN ChangedEventOf :
            vesc.values[field] = DecodedOf(vesc.parts[1] \o vesc.parts[2])[field]

\* C33: a decoder run on the buffered beginning of a valid frame raises no
\* fault and publishes nothing, and the frame is not lost: once the rest has
\* arrived, a later run decodes the frame and publishes its changes.
C33_PrefixRetried == [][C33_PrefixStep]_vars /\ []C33_FrameKept


\* the bytes the buffer holds, the oldest first
RingContents ==
    [k \in 1..((vesc.ring.write_idx + RingSize - vesc.ring.read_idx) % RingSize) |->
        vesc.ring.buffer[(vesc.ring.read_idx + k - 1) % RingSize]]

\* the bytes accepted are the bytes handed back followed by the bytes held,
\* which are fewer than the size; a pop that has read its byte has read the
\* oldest
C34_State ==
    pc # "init" =>
        /\ vesc.ring.popped \o RingContents = vesc.ring.pushed
        /\ Len(RingContents) <= vesc.ring.size - 1
        /\ pc = "pop_advance" => vesc.ring.data = Head(RingContents)

\* a push is refused exactly on a full buffer, which it leaves as it is
C34_PushStep ==
    n_rx' # n_rx =>
        IF Len(RingContents) = vesc.ring.size - 1
        THEN /\ ~vesc'.ring.push_ret
             /\ vesc'.ring.buffer = vesc.ring.buffer
             /\ vesc'.ring.read_idx = vesc.ring.read_idx
             /\ vesc'.ring.write_idx = vesc.ring.write_idx
             /\ vesc'.ring.pushed = vesc.ring.pushed
        ELSE /\ vesc'.ring.push_ret
             /\ vesc'.ring.pushed = Append(vesc.ring.pushed, n_rx')

\* a pop returns false exactly on an empty buffer, which it leaves as it is;
\* otherwise it hands back the oldest byte
C34_PopStep ==
    /\ (pc = "main" /\ pc' = "main" /\ n_rx' = n_rx /\ vesc' # vesc) =>
          /\ RingContents = << >>
          /\ ~vesc'.ring.pop_ret
          /\ vesc'.ring.popped = vesc.ring.popped
          /\ vesc'.ring.read_idx = vesc.ring.read_idx
          /\ vesc'.ring.write_idx = vesc.ring.write_idx
    /\ (pc = "main" /\ pc' = "pop_read") => RingContents # << >>
    /\ (pc = "pop_advance" /\ pc' = "main") =>
          /\ vesc'.ring.pop_ret
          /\ vesc'.ring.popped = Append(vesc.ring.popped, Head(RingContents))

\* C34: with the UART interrupt pushing at any point of the decoder's pops,
\* every byte whose push returned true is popped once and in push order,
\* the buffer never holds more than size - 1 bytes, a push on a full buffer
\* returns false and leaves the contents, and a pop on an empty buffer
\* returns false.
C34_RingBuffer == []C34_State /\ [][C34_PushStep]_vars /\ [][C34_PopStep]_vars

\* the indices have wrapped, a push ran inside a pop, the last push was
\* refused and the last pop found the buffer empty
C34_Witness ==
    /\ Len(vesc.ring.popped) >= RingSize
    /\ vesc.ring.raced
    /\ ~vesc.ring.push_ret
    /\ ~vesc.ring.pop_ret


\* a decoder run on bytes that hold no frame with right framing and CRC
\* leaves the count of outstanding requests as it was
C35_Step ==
    (Handling(EVENT_SERIAL_DATA_RX) /\ ~HasGoodFrame(vesc.rx)) =>
        vesc'.outstanding = vesc.outstanding

\* while the alive flag is set, no more than MAX_OUTSTANDING_PACKETS requests
\* are without a response: the next poll tick raises the timeout
C35_TimeoutReached ==
    vesc.alive => vesc.unanswered <= MAX_OUTSTANDING_PACKETS

\* C35: the count of outstanding requests is reset only when a frame passes
\* the START/LEN/END framing and the CRC; an EVENT_SERIAL_DATA_RX whose bytes
\* hold no valid frame leaves it unchanged, so a link that delivers only
\* invalid bytes while the VESC is taken as alive still ends in the
\* communication timeout.
C35_ResetByValidFrameOnly == [][C35_Step]_vars /\ []C35_TimeoutReached


\* a set_timer call that allocates or re-arms a slot returns a valid handle
\* of an active timer
C36_Step ==
    (SetStep /\ ~last_call'.fault) =>
        /\ last_call'.ret # INVALID_TIMER_ID
        /\ is_timer_active(timers', last_call'.ret)

\* the live timers have different ids
C36_UniqueIds ==
    \A i, j \in TimerSlots :
        (i # j /\ timers[i].callback # NULL /\ timers[j].callback # NULL) =>
            timers[i].id # timers[j].id

\* C36: after any sequence of set_timer, cancel_timer and tick operations,
\* including more than 255 allocations of a slot, where the 8-bit id counter
\* wraps, every set_timer call that allocates or re-arms a slot returns a
\* handle other than INVALID_TIMER_ID for which is_timer_active is true, and
\* no two slots hold the same id.
C36_ValidHandles == [][C36_Step]_vars /\ []C36_UniqueIds


\* C37: a timer set or set again with T >= 1 has its callback called on the
\* T-th tick event handled after the set_timer call and not before, whatever
\* slot it has and whether set_timer was called between two tick events or
\* from the callback of another timer while a tick event is handled.
C37_OnTheTthTick ==
    \A c \in TimerCallbackSet :
        armed[c] # NotArmed =>
            IF pc = "timer_callback"
            THEN (c = cur_cb /\ cb_did.ops = 0) => age[c] = armed[c].timeout
            ELSE age[c] < armed[c].timeout


\* EVENT_COMMAND_MODE_CONFIG handled outside IDLE: the pair stays, and with
\* enable set EVENT_COMMAND_NACK enters the queue
C38_Step ==
    (Handling(EVENT_COMMAND_MODE_CONFIG) /\ board_mode # BOARD_MODE_IDLE) =>
        /\ <<board_mode, board_submode>>' = <<board_mode, board_submode>>
        /\ HandledData # 0 =>
              /\ fifo' # << >>
              /\ fifo'[Len(fifo')].event = EVENT_COMMAND_NACK

\* C38: EVENT_COMMAND_MODE_CONFIG changes (mode, submode) only while the
\* board is in IDLE: with enable set outside IDLE it pushes
\* EVENT_COMMAND_NACK and leaves the pair unchanged, and with enable clear in
\* OFF, BOOTING, RIDING or FAULT it leaves the pair unchanged.
C38_ConfigOnlyInIdle == [][C38_Step]_vars


\* the fields of the telemetry the decoder retains and the event of each
TelemetryFields == {"duty_cycle", "rpm", "battery_level"}
ChangedEvent(field) ==
    CASE field = "duty_cycle" -> EVENT_DUTY_CYCLE_CHANGED
      [] field = "rpm" -> EVENT_RPM_CHANGED
      [] field = "battery_level" -> EVENT_BATTERY_LEVEL_CHANGED

\* C39: a retained telemetry value is never updated without its changed
\* event entering the queue: once the decoder has handled a frame, the value
\* the accessor of duty cycle, RPM or battery level returns is the value of
\* the last changed event of that field the queue accepted, also when the
\* queue was full while the frame was decoded. As a step: a handler that
\* changes a retained value has added to the queue the changed event of the
\* field with the new value.
C39_Step ==
    \A field \in TelemetryFields :
        vesc'.values[field] # vesc.values[field] =>
            \E i \in DOMAIN fifo' :
                /\ i >= Len(fifo)
                /\ fifo'[i] = [event |-> ChangedEvent(field),
                               data |-> Scalar(vesc'.values[field])]
C39_RetainedIsPublished == [][C39_Step]_vars


\* ---- the latches of the riding submode against latches fed every sample ----

\* the four latches applied to the retained duty cycle and RPM
FedEverySample(ref) ==
    [danger |-> apply_hysteresis(ref.danger, DUTY_CYCLE_DANGER_THRESHOLD,
                                 DUTY_CYCLE_DANGER_RESET, retained.duty_cycle),
     warning |-> apply_hysteresis(ref.warning, DUTY_CYCLE_WARNING_THRESHOLD,
                                  DUTY_CYCLE_WARNING_RESET, retained.duty_cycle),
     slow_rpm |-> apply_hysteresis(ref.slow_rpm, SLOW_RPM_THRESHOLD,
                                   SLOW_RPM_RESET, Abs(retained.rpm)),
     stopped_rpm |-> apply_hysteresis(ref.stopped_rpm, STOPPED_RPM_THRESHOLD,
                                      STOPPED_RPM_RESET, Abs(retained.rpm))]

\* the submode of the latch of highest priority that is SET
SubmodeOf(ref) ==
    IF ref.danger = STATE_SET THEN BOARD_SUBMODE_RIDING_DANGER
    ELSE IF ref.warning = STATE_SET THEN BOARD_SUBMODE_RIDING_WARNING
    ELSE IF ref.slow_rpm = STATE_SET THEN BOARD_SUBMODE_RIDING_NORMAL
    ELSE IF ref.stopped_rpm = STATE_SET THEN BOARD_SUBMODE_RIDING_SLOW
    ELSE BOARD_SUBMODE_RIDING_STOPPED

\* one pass of the loop of event_queue_pop_and_notify, with the latches of
\* reference fed on every call of update_riding_submode that reaches the
\* latches
ChainDeliver ==
    /\ pc = "main"
    /\ ~is_queue_empty
    /\ LET slot == event_queue[event_queue_head]
       IN /\ \E st \in {[BoardState EXCEPT !.request = NoRequest]} :
               \E s1 \in {notify_subscribers(st, slot.event, slot.event, slot.data)} :
                  \E s2 \in {[s1 EXCEPT !.head = NextHead(s1.head),
                                        !.fifo = IF s1.fifo = << >> THEN s1.fifo
                                                                    ELSE Tail(s1.fifo)]} :
                     /\ SetBoardState(s2)
                     /\ stage_ticks' =
                           IF ~TimedStage(s2.mode, s2.submode) THEN 0
                           ELSE IF s2.mode # board_mode \/ s2.submode # board_submode THEN 0
                           ELSE IF slot.event = EVENT_SYS_TICK THEN stage_ticks + 1
                           ELSE stage_ticks
          /\ delivered' = [event |-> slot.event, data |-> slot.data,
                           mode |-> board_mode, submode |-> board_submode,
                           idle_timer |-> IdleTimerActive(timers)]
    /\ vesc' = IF Recomputing THEN [vesc EXCEPT !.ref = FedEverySample(@)] ELSE vesc
    /\ UNCHANGED <<subscribers, next_subscriber_index, mvars, systick_ms, n_systick,
                   qhvars, thvars, retained, n_mod, n_quiet, latch>>

\* duty cycles and RPMs outside and inside the band of a latch
ChainRpmValues == {0, 1900, 3000}
ChainDutyValues == {0, 77, 95}
ChainEvents ==
    ({<<"rpm", EVENT_RPM_CHANGED>>} \X ChainRpmValues)
        \cup ({<<"duty_cycle", EVENT_DUTY_CYCLE_CHANGED>>} \X ChainDutyValues)
        \cup ({<<"footpads_state", EVENT_FOOTPAD_CHANGED>>} \X FootpadValues)

NextChain ==
    \/ BoardBoot
    \/ ChainDeliver
    \/ /\ board_mode \in {BOARD_MODE_OFF, BOARD_MODE_BOOTING}
       /\ Drained
       /\ Budget(MaxRideEvents)
       /\ CommandPush(EVENT_VESC_ALIVE, 0)
    \/ \E t \in ChainEvents :
          Drained /\ Budget(MaxRideEvents) /\ TelemetryPush(t[1][1], t[1][2], t[2])

SpecChain == InitBoard /\ [][NextChain]_vars

\* a recomputation chooses the submode the latches fed every sample give
C40_Step ==
    Recomputing =>
        /\ board_mode' = BOARD_MODE_RIDING
        /\ board_submode' = SubmodeOf(vesc'.ref)

\* C40: for every sequence of samples of duty cycle and RPM, the riding
\* submode update_riding_submode chooses is the submode of a model in which
\* the four latches (danger, warning, slow, stopped) are fed every sample
\* and the latch of highest priority that is SET wins: leaving out the
\* latches below a latch that is SET never changes a later result.
C40_SameAsFedEverySample == [][C40_Step]_vars

====
